---- MODULE Spec2Model ----
(***************************************************************************)
(* A model of the review evaluation console (webapp/evaluate.js, app.js,   *)
(* evaluator-dashboard.js): the evaluation workspace as a state machine    *)
(* over one loaded paper collection, its autosave traffic to the           *)
(* persistence gateway, and the pure helpers it is built from.             *)
(*                                                                         *)
(* Conventions.  JavaScript arrays are 0-based and TLA+ sequences 1-based: *)
(* a review at JavaScript index k is element k+1 of the model's sequence,  *)
(* and every review index held in the model's state (data-review           *)
(* attributes, timer keys) is the 1-based one.  paperIndex keeps its       *)
(* JavaScript value, because it enters the shuffle seed arithmetically.    *)
(***************************************************************************)
EXTENDS Integers, Sequences, FiniteSets, TLC

(***************************************************************************)
(* Double-precision arithmetic of the seeded generator.                    *)
(*                                                                         *)
(* seededRandom computes state * 1103515245 + 12345 on IEEE-754 doubles    *)
(* and only then masks with 0x7fffffff.  The product exceeds 2^53 for most *)
(* states, so it is rounded (to nearest, ties to even) before the          *)
(* addition, and the sum is rounded again.  Numbers above 2^31 are held as *)
(* little-endian sequences of limbs.                                       *)
(***************************************************************************)
LimbBase == 4096

LCG_MULTIPLIER == 1103515245

LCG_INCREMENT == 12345

INT31_MASK == 2147483647

MantissaBits == 53

\* A number below 2^31 as three limbs.
ToLimbs(n) ==
    << n % LimbBase, (n \div LimbBase) % LimbBase, n \div (LimbBase * LimbBase) >>

RECURSIVE Carry(_, _)
\* Propagate carries through the limbs s, starting with carry c.
Carry(s, c) ==
    IF s = << >>
    THEN IF c = 0 THEN << >> ELSE << c % LimbBase >> \o Carry(<< >>, c \div LimbBase)
    ELSE << (s[1] + c) % LimbBase >> \o Carry(Tail(s), (s[1] + c) \div LimbBase)

RECURSIVE Trim(_)
\* Drop the leading (most significant) zero limbs.
Trim(s) ==
    IF s # << >> /\ s[Len(s)] = 0 THEN Trim(SubSeq(s, 1, Len(s) - 1)) ELSE s

\* The exact product of two three-limb numbers.
MulLimbs(x, y) ==
    Trim(Carry(<< x[1] * y[1],
                  x[1] * y[2] + x[2] * y[1],
                  x[1] * y[3] + x[2] * y[2] + x[3] * y[1],
                  x[2] * y[3] + x[3] * y[2],
                  x[3] * y[3] >>, 0))

\* The exact sum of a limb number and a small natural.
AddSmall(s, n) ==
    IF s = << >> THEN Trim(Carry(<< n >>, 0))
    ELSE Trim(Carry([s EXCEPT ![1] = @ + n], 0))

RECURSIVE BitLenSmall(_)
BitLenSmall(n) == IF n = 0 THEN 0 ELSE 1 + BitLenSmall(n \div 2)

\* Number of significant bits of a trimmed limb number.
BitLen(s) ==
    IF s = << >> THEN 0 ELSE 12 * (Len(s) - 1) + BitLenSmall(s[Len(s)])

RECURSIVE Pow2(_)
Pow2(e) == IF e = 0 THEN 1 ELSE 2 * Pow2(e - 1)

\* Round a natural to the nearest double, ties to even.  The numbers that
\* occur stay below 2^64, so at most 11 low bits are dropped and the
\* rounding is decided inside the lowest limb.
RoundToDouble(s) ==
    LET e == BitLen(s) - MantissaBits IN
    IF e <= 0 THEN s
    ELSE LET u    == Pow2(e)
             rem  == s[1] % u
             odd  == (s[1] \div u) % 2 = 1
             down == [s EXCEPT ![1] = @ - rem]
             up   == AddSmall(down, u)
         IN  IF rem * 2 > u \/ (rem * 2 = u /\ odd) THEN up ELSE down

\* x & 0x7fffffff of a non-negative double x: its low 31 bits.
Low31(s) ==
    LET limb(k) == IF k <= Len(s) THEN s[k] ELSE 0 IN
    limb(1) + limb(2) * LimbBase + (limb(3) % 128) * (LimbBase * LimbBase)

\* The generator in exact arithmetic, without the rounding to a double.
NextRngStateExact(state) ==
    Low31(AddSmall(MulLimbs(ToLimbs(state), ToLimbs(LCG_MULTIPLIER)), LCG_INCREMENT))

\* One step of the generator: the state after one call of the closure
\* seededRandom returns.
NextRngState(state) ==
    Low31(RoundToDouble(AddSmall(
        RoundToDouble(MulLimbs(ToLimbs(state), ToLimbs(LCG_MULTIPLIER))),
        LCG_INCREMENT)))

\* A draw that lands one past position i, as a generator value of 1 would.
DrawIndexPastEnd(state, k) == k

\* Math.floor((state / 0x7fffffff) * k) for 0 <= state <= 0x7fffffff and a
\* small k > 0.  0x7fffffff is prime, so state * k / 0x7fffffff is an integer
\* only for state = 0 or state = 0x7fffffff and is otherwise at least 2^-31
\* away from one, far more than the two roundings move it: the double result
\* has the floor of the exact quotient.  j * 0x7fffffff <= state * k is
\* decided without leaving 32 bits.
DrawIndex(state, k) ==
    LET a == INT31_MASK \div k
        b == INT31_MASK % k
        least(j) == j * a + ((j * b + k - 1) \div k)
    IN  CHOOSE j \in 0..k :
            /\ least(j) <= state
            /\ \A jj \in (j + 1)..k : least(jj) > state

\* The value JavaScript reads from a missing array slot; review indices are
\* positive, so 0 is free to stand for it.
undefined == 0

\* [shuffled[i], shuffled[j]] = [shuffled[j], shuffled[i]] at 1-based
\* positions p and q; writing past the end extends the array.
SwapAt(s, p, q) ==
    LET at(k) == IF k <= Len(s) THEN s[k] ELSE undefined
        n == IF p > q THEN (IF p > Len(s) THEN p ELSE Len(s))
             ELSE (IF q > Len(s) THEN q ELSE Len(s))
    IN  [k \in 1..n |-> IF k = p THEN at(q) ELSE IF k = q THEN at(p) ELSE at(k)]

RECURSIVE FisherYates(_, _, _)
\* The loop of shuffleWithSeed from JavaScript index i down to 1, with the
\* generator in `state` before the draw.
FisherYates(shuffled, i, state) ==
    IF i < 1 THEN shuffled
    ELSE LET s1 == NextRngState(state)
             j  == DrawIndex(s1, i + 1)
         IN  FisherYates(SwapAt(shuffled, i + 1, j + 1), i - 1, s1)

shuffleWithSeed(array, seed) == FisherYates(array, Len(array) - 1, seed)

(***************************************************************************)
(* The data model: a paper is a status and its reviews, a review carries   *)
(* the evaluator's metrics (five star ratings, a source, a comment).       *)
(***************************************************************************)
METRIC_KEYS == {"coverage", "specificity", "correctness", "constructiveness", "stance"}

\* The stars a metric row offers: [1, 2, 3, 4, 5].
MaxStar == 5

Metrics(cov, spe, cor, con, sta, src, cmt) ==
    [coverage |-> cov, specificity |-> spe, correctness |-> cor,
     constructiveness |-> con, stance |-> sta, source |-> src, comment |-> cmt]

(***************************************************************************)
(* Progress calculator.  The three views each carry their own copy of      *)
(* calculateProgress; each copy is modelled from its own source.           *)
(***************************************************************************)
\* evaluate.js: metrics.source && (source === 'ai' || ... || source === '2')
hasSource(metrics) ==
    /\ metrics.source # ""
    /\ \/ metrics.source = "ai"
       \/ metrics.source = "human"
       \/ metrics.source = "1"
       \/ metrics.source = "2"

hasAllMetrics(metrics) ==
    /\ metrics.coverage > 0
    /\ metrics.specificity > 0
    /\ metrics.correctness > 0
    /\ metrics.constructiveness > 0
    /\ metrics.stance > 0
    /\ hasSource(metrics)

RECURSIVE forEachReview(_, _, _)
\* paper.reviews.forEach(review => { ...; if (hasAllMetrics) completed++; })
forEachReview(reviews, k, completed) ==
    IF k > Len(reviews) THEN completed
    ELSE forEachReview(reviews, k + 1,
                       IF hasAllMetrics(reviews[k].metrics) THEN completed + 1
                       ELSE completed)

calculateProgress(paper) ==
    IF Len(paper.reviews) = 0 THEN [completed |-> 0, total |-> 0]
    ELSE [completed |-> forEachReview(paper.reviews, 1, 0),
          total |-> Len(paper.reviews)]

\* A copy that forgets the legacy source values.
hasSourceCatalogNoLegacy(metrics) ==
    /\ metrics.source # ""
    /\ \/ metrics.source = "ai"
       \/ metrics.source = "human"

\* app.js (catalog)
hasSourceCatalog(metrics) ==
    /\ metrics.source # ""
    /\ \/ metrics.source = "ai"
       \/ metrics.source = "human"
       \/ metrics.source = "1"
       \/ metrics.source = "2"

hasAllMetricsCatalog(metrics) ==
    /\ metrics.coverage > 0
    /\ metrics.specificity > 0
    /\ metrics.correctness > 0
    /\ metrics.constructiveness > 0
    /\ metrics.stance > 0
    /\ hasSourceCatalog(metrics)

RECURSIVE forEachReviewCatalog(_, _, _)
forEachReviewCatalog(reviews, k, completed) ==
    IF k > Len(reviews) THEN completed
    ELSE forEachReviewCatalog(reviews, k + 1,
                              IF hasAllMetricsCatalog(reviews[k].metrics)
                              THEN completed + 1 ELSE completed)

calculateProgressCatalog(paper) ==
    IF Len(paper.reviews) = 0 THEN [completed |-> 0, total |-> 0]
    ELSE [completed |-> forEachReviewCatalog(paper.reviews, 1, 0),
          total |-> Len(paper.reviews)]

\* evaluator-dashboard.js
hasSourceDashboard(metrics) ==
    /\ metrics.source # ""
    /\ \/ metrics.source = "ai"
       \/ metrics.source = "human"
       \/ metrics.source = "1"
       \/ metrics.source = "2"

hasAllMetricsDashboard(metrics) ==
    /\ metrics.coverage > 0
    /\ metrics.specificity > 0
    /\ metrics.correctness > 0
    /\ metrics.constructiveness > 0
    /\ metrics.stance > 0
    /\ hasSourceDashboard(metrics)

RECURSIVE forEachReviewDashboard(_, _, _)
forEachReviewDashboard(reviews, k, completed) ==
    IF k > Len(reviews) THEN completed
    ELSE forEachReviewDashboard(reviews, k + 1,
                                IF hasAllMetricsDashboard(reviews[k].metrics)
                                THEN completed + 1 ELSE completed)

calculateProgressDashboard(paper) ==
    IF Len(paper.reviews) = 0 THEN [completed |-> 0, total |-> 0]
    ELSE [completed |-> forEachReviewDashboard(paper.reviews, 1, 0),
          total |-> Len(paper.reviews)]

\* updatePaperStatus with the second comparison off by one.
updatePaperStatusOffByOne(paper) ==
    LET progress == calculateProgress(paper) IN
    IF progress.completed = 0 THEN "not_started"
    ELSE IF progress.completed <= progress.total THEN "in_progress"
    ELSE "completed"

\* The status updatePaperStatus assigns to currentPaper.status.
updatePaperStatus(paper) ==
    LET progress == calculateProgress(paper) IN
    IF progress.completed = 0 THEN "not_started"
    ELSE IF progress.completed < progress.total THEN "in_progress"
    ELSE "completed"

(***************************************************************************)
(* The filter store (app.js, evaluate.js).  A string that is searched is a *)
(* sequence of one-character strings; a name that is only compared (an     *)
(* evaluator, an area, a status) is a plain string.                        *)
(***************************************************************************)
\* String.prototype.toLowerCase on the letters used here.
LowerCaseOf(c) ==
    CASE c = "A" -> "a"
      [] c = "B" -> "b"
      [] OTHER   -> c

\* A comparison that does not fold the case.
toLowerCaseIdentity(s) == s

toLowerCase(s) == [i \in DOMAIN s |-> LowerCaseOf(s[i])]

\* String.prototype.includes
includes(haystack, needle) ==
    \E k \in 0..(Len(haystack) - Len(needle)) :
        SubSeq(haystack, k + 1, k + Len(needle)) = needle

Range(s) == {s[i] : i \in DOMAIN s}

\* The initial value of the catalog's `filters`: five empty sets.
NoFilters ==
    [evaluators |-> {}, areas |-> {}, keywords |-> {}, titleKeywords |-> {},
     statuses |-> {}]

\* The fields in the order in which the loaders read them.
FILTER_FIELDS == << "evaluators", "areas", "keywords", "titleKeywords", "statuses" >>

\* A value JSON.parse returned, or a property of it: "undefined" for a
\* property that is not there, "array" with its items, "number" (0 is falsy,
\* any other is truthy and not iterable), "null", and "object" with the five
\* properties the loaders read.
JsUndefined == [type |-> "undefined"]

JsArray(items) == [type |-> "array", items |-> items]

JsNumber(n) == [type |-> "number", value |-> n]

JsNull == [type |-> "null"]

JsObject(evaluators, areas, keywords, titleKeywords, statuses) ==
    [type |-> "object", evaluators |-> evaluators, areas |-> areas,
     keywords |-> keywords, titleKeywords |-> titleKeywords, statuses |-> statuses]

\* filtersData.<field>: a TypeError on null, undefined on a primitive.
getProperty(data, field) ==
    CASE data.type = "null"   -> [threw |-> TRUE]
      [] data.type = "object" -> [threw |-> FALSE, value |-> data[field]]
      [] OTHER                -> [threw |-> FALSE, value |-> JsUndefined]

\* value || []
orEmptyArray(value) ==
    IF value.type \in {"undefined", "null"} \/ (value.type = "number" /\ value.value = 0)
    THEN JsArray(<< >>)
    ELSE value

\* new Set(value): a TypeError unless the value is iterable.
newSet(value) ==
    IF value.type = "array"
    THEN [threw |-> FALSE, set |-> Range(value.items)]
    ELSE [threw |-> TRUE]

\* new Set(filtersData.<field> || [])
fieldSet(data, field) ==
    LET property == getProperty(data, field) IN
    IF property.threw THEN [threw |-> TRUE]
    ELSE newSet(orEmptyArray(property.value))

\* What localStorage.getItem('reviewFilters') holds: nothing, a text that is
\* not JSON, or a text that parses to `value`.
StoredAbsent == [kind |-> "absent"]

StoredInvalid == [kind |-> "invalid"]

StoredJson(value) == [kind |-> "json", value |-> value]

\* app.js loadSavedFilters, the body of the try: the five assignments to the
\* global `filters`, one after the other; an exception ends the block and is
\* caught, and the assignments made before it stay.
RECURSIVE assignSavedFilters(_, _, _)
assignSavedFilters(filters, filtersData, k) ==
    IF k > Len(FILTER_FIELDS) THEN filters
    ELSE LET made == fieldSet(filtersData, FILTER_FIELDS[k]) IN
         IF made.threw THEN filters
         ELSE assignSavedFilters([filters EXCEPT ![FILTER_FIELDS[k]] = made.set],
                                 filtersData, k + 1)

\* app.js loadSavedFilters: the value of `filters` after the call.
loadSavedFilters(filters, saved) ==
    CASE saved.kind = "absent"  -> filters
      [] saved.kind = "invalid" -> filters
      [] OTHER                  -> assignSavedFilters(filters, saved.value, 1)

\* evaluate.js loadFilters: the object literal is returned only if all five
\* sets were built; otherwise the catch block runs and null is returned.
loadFilters(saved) ==
    IF saved.kind # "json" THEN [isNull |-> TRUE]
    ELSE LET made == [k \in DOMAIN FILTER_FIELDS |->
                         fieldSet(saved.value, FILTER_FIELDS[k])] IN
         IF \E k \in DOMAIN made : made[k].threw THEN [isNull |-> TRUE]
         ELSE [isNull        |-> FALSE,
               evaluators    |-> made[1].set,
               areas         |-> made[2].set,
               keywords      |-> made[3].set,
               titleKeywords |-> made[4].set,
               statuses      |-> made[5].set]

\* app.js filterPapers, the callback of allPapers.filter.
filterPapersCallback(paper, filters) ==
    /\ (filters.evaluators # {}) =>
           \E e \in Range(paper.evaluators) : e \in filters.evaluators
    /\ (filters.areas # {}) =>
           \E a \in Range(paper.primary_area) : a \in filters.areas
    /\ (filters.keywords # {}) =>
           \A kw \in filters.keywords :
               \E k \in Range(paper.keywords) :
                   includes(toLowerCase(k), toLowerCase(kw))
    /\ (filters.titleKeywords # {}) =>
           \A kw \in filters.titleKeywords :
               includes(toLowerCase(paper.title), toLowerCase(kw))
    /\ (filters.statuses # {}) => paper.status \in filters.statuses

\* Array.prototype.filter, keeping the positions (0-based) of the elements kept.
RECURSIVE keptIndices(_, _, _)
keptIndices(papers, filters, k) ==
    IF k > Len(papers) THEN << >>
    ELSE (IF filterPapersCallback(papers[k], filters) THEN << k - 1 >> ELSE << >>)
             \o keptIndices(papers, filters, k + 1)

\* app.js filterPapers
filterPapers(papers, filters) ==
    LET kept == keptIndices(papers, filters, 1) IN
    [i \in DOMAIN kept |-> papers[kept[i] + 1]]

\* evaluate.js getFilteredPapers, the callback of allPapers.forEach: TRUE if
\* the index is pushed.
pushesIndex(paper, filters) ==
    /\ (filters.evaluators # {}) =>
           \E e \in Range(paper.evaluators) : e \in filters.evaluators
    /\ (filters.areas # {}) =>
           \E a \in Range(paper.primary_area) : a \in filters.areas
    /\ (filters.keywords # {}) =>
           \A kw \in filters.keywords :
               \E k \in Range(paper.keywords) :
                   includes(toLowerCase(k), toLowerCase(kw))
    /\ (filters.titleKeywords # {}) =>
           \A kw \in filters.titleKeywords :
               includes(toLowerCase(paper.title), toLowerCase(kw))
    /\ (filters.statuses # {}) => paper.status \in filters.statuses

RECURSIVE pushIndices(_, _, _)
pushIndices(papers, filters, k) ==
    IF k > Len(papers) THEN << >>
    ELSE (IF pushesIndex(papers[k], filters) THEN << k - 1 >> ELSE << >>)
             \o pushIndices(papers, filters, k + 1)

\* evaluate.js getFilteredPapers: the indices (0-based) of the papers kept.
getFilteredPapers(papers, saved) ==
    LET filters == loadFilters(saved) IN
    IF filters.isNull THEN [i \in 1..Len(papers) |-> i - 1]
    ELSE pushIndices(papers, filters, 1)

\* updateStatistics (app.js) and updateStatistics / updateStatsBar
\* (evaluator-dashboard.js): the counts by paper.status.
updateStatistics(papers) ==
    LET count(status) == Cardinality({i \in DOMAIN papers : papers[i].status = status})
    IN  [total       |-> Len(papers),
         completed   |-> count("completed"),
         in_progress |-> count("in_progress"),
         not_started |-> Len(papers) - count("completed") - count("in_progress")]

(***************************************************************************)
(* The evaluation workspace (evaluate.js).                                 *)
(***************************************************************************)
VARIABLES
    page,                 \* "loading", "open" (paper rendered) or "left"
    appConfig,            \* the options object loadConfig stored
    allPapers,            \* the in-memory collection
    paperIndex,           \* parseInt(params.get('paper')), 0-based
    rendered,             \* the review items of the DOM, in display order
    textarea,             \* the value of each item's comment textarea
    focused,              \* the item whose textarea has the focus, or 0
    commentSaveTimeouts,  \* review index -> timer handle, 0 for null/undefined
    timers,               \* the scheduled, not yet run, timeout callbacks
    nextTimerId,          \* the handle the next setTimeout returns
    inflight,             \* POST /save_evaluation requests not yet answered
    nextRequest,          \* number of the next request issued
    durable,              \* the collection the persistence gateway holds
    events,               \* handlers run so far that issue or schedule a save
                          \* (bounds the exploration)
    lastOp,               \* history: the handler that ran last
    runSaves,             \* history: timer-driven saves of each review's
                          \* current run of keystrokes
    savedComments,        \* history: per review, the comment texts that an
                          \* issued request has carried (or that were loaded)
    dropped,              \* history: some request failed to reach the gateway
    localStorage,         \* what localStorage holds under 'reviewFilters'
    locationSearch,       \* the `paper` parameter of the page's URL
    configResponse,       \* what GET /config answers on this page view
    budget,               \* the number of editing handlers explored
    filteredPaperIndices, \* the indices getFilteredPapers returned at load
    currentFilteredIndex, \* the position of the paper in them, or -1
    prevBtnDisabled,      \* prev-paper-btn.disabled
    nextBtnDisabled,      \* next-paper-btn.disabled
    navTarget,            \* the index navigateToPaper was called with, or NoTarget
    papersResponse,       \* how GET of the collection ends on this page view
    location,             \* the document shown
    pdfViewer,            \* the iframe #pdf-viewer: "empty", "loading" (a PDF),
                          \* "blank" (about:blank) or "removed"
    handlerLog,           \* history: what the handler that left the page did,
                          \* statement by statement
    filters,              \* app.js: the global `filters`
    papersList,           \* what #papers-list / #evaluator-papers-list shows
    statistics,           \* the four counts shown
    selectedEvaluator,    \* evaluator-dashboard.js: the global of that name
    storedEvaluator,      \* what localStorage holds under 'selectedEvaluator'
    sections,             \* the dashboard's sections: "initial", "shown", "hidden"
    chart,                \* evaluator-dashboard.js: the Chart instance, or NoChart
    theme,                \* the value of body[data-theme]
    reviewTheme,          \* what localStorage holds under 'reviewTheme'
    mediaQuery,           \* theme.js: MEDIA_QUERY, with its `matches`
    handoff,              \* history: the click that opened this document
    fnArg,                \* argument of the pure function under test
    fnRet                 \* what it returned

envVars == << localStorage, locationSearch, configResponse, budget, papersResponse >>

navVars == << filteredPaperIndices, currentFilteredIndex, prevBtnDisabled,
              nextBtnDisabled, navTarget >>

docVars == << location, pdfViewer, handlerLog >>

siteVars == << filters, papersList, statistics, selectedEvaluator, storedEvaluator,
               sections, chart, theme, reviewTheme, mediaQuery, handoff >>

wsVars == << page, appConfig, allPapers, paperIndex, rendered, textarea, focused,
             commentSaveTimeouts, timers, nextTimerId, inflight, nextRequest,
             durable, events, lastOp, runSaves, savedComments, dropped,
             envVars, navVars, docVars, siteVars >>

fnVars == << fnArg, fnRet >>

vars == << wsVars, fnVars >>

\* Bounds of the exploration.
MaxEvents == 2

MaxProbeReviews == 2

\* The collection the gateway serves.  Stored statuses agree with the reviews.
Review(text, metrics) == [text |-> text, metrics |-> metrics]

Paper(status, reviews) == [status |-> status, reviews |-> reviews]

NoPaper == Paper("", << >>)

\* A paper with the fields the filters read.
CatalogPaper(title, evaluators, primary_area, keywords, status, reviews) ==
    [title |-> title, evaluators |-> evaluators, primary_area |-> primary_area,
     keywords |-> keywords, status |-> status, reviews |-> reviews]

Collections ==
    { << CatalogPaper(<< "A", "b" >>, << "alice" >>, << "nlp" >>, << << "a" >> >>,
               "in_progress",
               << Review("A1", Metrics(4, 3, 5, 2, 3, "human", "a")),
                  Review("A2", Metrics(2, 2, 2, 2, 0, "ai", "")) >>),
         CatalogPaper(<< "b" >>, << "bob", "alice" >>, << "cv" >>, << << "B", "a" >> >>,
               "in_progress",
               << Review("B1", Metrics(0, 0, 0, 0, 0, "", "")),
                  Review("B2", Metrics(1, 1, 1, 1, 1, "2", "")) >>) >> }

\* The configurations GET /config may answer with.
Configs ==
    { [showHarmonizedByDefault |-> FALSE, shuffleReviews |-> FALSE, shuffleSeed |-> 42],
      [showHarmonizedByDefault |-> FALSE, shuffleReviews |-> TRUE, shuffleSeed |-> 42] }

\* A response of GET /config: the options, or a failure of the fetch.
ConfigOk(config) == [ok |-> TRUE, body |-> config]

ConfigFailure == [ok |-> FALSE]

\* loadConfig: the value of appConfig after the call.
loadConfig(response) ==
    IF response.ok THEN response.body
    ELSE [showHarmonizedByDefault |-> TRUE, shuffleReviews |-> FALSE,
          shuffleSeed |-> 42]

\* The `paper` parameter of the URL: not there (params.get returns null), or
\* its text, a sequence of characters.
UrlAbsent == [present |-> FALSE]

UrlParam(text) == [present |-> TRUE, text |-> text]

\* NaN, which every comparison with a number answers false for.
NaN == -1000000

DIGITS == << "0", "1", "2", "3", "4", "5", "6", "7", "8", "9" >>

isDigit(c) == \E d \in DOMAIN DIGITS : DIGITS[d] = c

digitValue(c) == (CHOOSE d \in DOMAIN DIGITS : DIGITS[d] = c) - 1

RECURSIVE leadingDigits(_)
leadingDigits(text) ==
    IF Len(text) = 0 \/ ~isDigit(Head(text)) THEN 0
    ELSE 1 + leadingDigits(Tail(text))

RECURSIVE decimalValue(_, _)
decimalValue(text, acc) ==
    IF Len(text) = 0 THEN acc
    ELSE decimalValue(Tail(text), 10 * acc + digitValue(Head(text)))

\* A parse that reads every text as 0.
parseIntOrZero(param) == 0

\* parseInt(params.get('paper')): an optional minus sign and the longest
\* prefix of digits; NaN if there is no digit (null is read as "null").
parseInt(param) ==
    IF ~param.present THEN NaN
    ELSE LET negative == Len(param.text) > 0 /\ Head(param.text) = "-"
             body == IF negative THEN Tail(param.text) ELSE param.text
             n == leadingDigits(body)
         IN  IF n = 0 THEN NaN
             ELSE (IF negative THEN -1 ELSE 1) * decimalValue(SubSeq(body, 1, n), 0)

\* Array.prototype.indexOf on the index list: a 0-based position or -1.
indexOf(indices, value) ==
    IF \E k \in DOMAIN indices : indices[k] = value
    THEN (CHOOSE k \in DOMAIN indices :
             indices[k] = value /\ \A j \in 1..(k - 1) : indices[j] # value) - 1
    ELSE -1

\* No call of navigateToPaper.
NoTarget == -1

\* navigateToPreviousPaper without its test.
navigateToPreviousPaperUnguarded(indices, pos) ==
    IF pos > 0 THEN indices[pos] ELSE NaN

\* navigateToPreviousPaper: the index navigateToPaper is called with.
navigateToPreviousPaper(indices, pos) ==
    IF pos > 0 THEN indices[pos] ELSE NoTarget

\* navigateToNextPaper likewise (positions are 0-based, sequences 1-based).
navigateToNextPaper(indices, pos) ==
    IF pos < Len(indices) - 1 THEN indices[pos + 2] ELSE NoTarget

\* The review items a page can hold here.
Items == 1..3

\* The star value clicked and the character typed.
StarInputs == {MaxStar}

KeyInputs == {"x"}

\* currentPaper = allPapers[paperIndex] is an alias of the collection's
\* element: a mutation of currentPaper is a mutation of allPapers, and
\* saveEvaluation's allPapers[paperIndex] = currentPaper stores what is there.
currentPaper == allPapers[paperIndex + 1]

\* A store that adds the paper at the end of the collection.
withCurrentPaperAppended(paper) == Append(allPapers, paper)

withCurrentPaper(paper) == [allPapers EXCEPT ![paperIndex + 1] = paper]

\* A seed that leaves the paper out.
paperSeedOfConfig(config, paperIdx) == config.shuffleSeed

\* renderReviews: paperSeed = appConfig.shuffleSeed + paperIndex
paperSeed(config, paperIdx) == config.shuffleSeed + paperIdx

\* A render that sorts the paper's own array into the display order.
reviewsShuffledInPlace(paper, config, paperIdx) ==
    IF config.shuffleReviews /\ Len(paper.reviews) > 0
    THEN shuffleWithSeed(paper.reviews, paperSeed(config, paperIdx))
    ELSE paper.reviews

\* currentPaper.reviews after renderReviews: the function reads it (map
\* builds reviewsWithIndices, shuffleWithSeed spreads that into `shuffled`
\* and swaps there) and assigns to no element of it.
reviewsAfterRender(paper, config, paperIdx) == paper.reviews

\* The review items renderReviews writes: item `index` shows the text of
\* reviewsToRender[index] and every control of it carries data-review=index.
renderReviews(paper, config, paperIdx) ==
    IF Len(paper.reviews) = 0 THEN << >>
    ELSE LET reviewsWithIndices ==
                 [idx \in 1..Len(paper.reviews) |->
                     [review |-> paper.reviews[idx], originalIndex |-> idx]]
             shuffled ==
                 shuffleWithSeed(reviewsWithIndices, paperSeed(config, paperIdx))
             reviewsToRender ==
                 IF config.shuffleReviews
                 THEN [k \in DOMAIN shuffled |-> shuffled[k].review]
                 ELSE paper.reviews
         IN  [index \in 1..Len(reviewsToRender) |->
                 [text |-> reviewsToRender[index].text, dataReview |-> index]]

\* setupCommentInputs: textarea.value = metrics.comment || ''
setupCommentInputs(paper, items) ==
    [item \in DOMAIN items |-> paper.reviews[items[item].dataReview].metrics.comment]

\* A JSON string.
JsString(s) == [type |-> "string", value |-> s]

\* What JSON.parse makes of null where a number stood.
NullMetric == -1

\* A serialisation that writes every falsy number as null.
stringifyNumberFalsyAsNull(n) == IF n = NaN \/ n = 0 THEN JsNull ELSE JsNumber(n)

\* JSON.stringify of a number: NaN is written as null, any other number as
\* its digits.
stringifyNumber(n) == IF n = NaN THEN JsNull ELSE JsNumber(n)

\* JSON.stringify(allPapers), as far as the metrics go: the five ratings are
\* numbers, source and comment are strings; every key of the object is
\* written.  The other fields are strings and arrays of strings.
JSON_stringify(papers) ==
    LET metricsText(metrics) ==
            [coverage         |-> stringifyNumber(metrics.coverage),
             specificity      |-> stringifyNumber(metrics.specificity),
             correctness      |-> stringifyNumber(metrics.correctness),
             constructiveness |-> stringifyNumber(metrics.constructiveness),
             stance           |-> stringifyNumber(metrics.stance),
             source           |-> JsString(metrics.source),
             comment          |-> JsString(metrics.comment)]
        reviewText(review) == [review EXCEPT !.metrics = metricsText(review.metrics)]
        paperText(paper) ==
            [paper EXCEPT !.reviews = [r \in DOMAIN paper.reviews |->
                                          reviewText(paper.reviews[r])]]
    IN  [p \in DOMAIN papers |-> paperText(papers[p])]

\* response.json() on that text.
JSON_parse(text) ==
    LET valueOf(json) == IF json.type = "null" THEN NullMetric ELSE json.value
        metricsValue(metrics) ==
            [coverage         |-> valueOf(metrics.coverage),
             specificity      |-> valueOf(metrics.specificity),
             correctness      |-> valueOf(metrics.correctness),
             constructiveness |-> valueOf(metrics.constructiveness),
             stance           |-> valueOf(metrics.stance),
             source           |-> valueOf(metrics.source),
             comment          |-> valueOf(metrics.comment)]
        reviewValue(review) == [review EXCEPT !.metrics = metricsValue(review.metrics)]
        paperValue(paper) ==
            [paper EXCEPT !.reviews = [r \in DOMAIN paper.reviews |->
                                          reviewValue(paper.reviews[r])]]
    IN  [p \in DOMAIN text |-> paperValue(text[p])]

\* saveEvaluation: POST the whole collection, serialised when the request is
\* issued; `continuation` is what the caller does once the await returns.
\* `body` is the collection the request's text reads as, which is what the
\* gateway serves once it has stored the text.
saveEvaluation(papers, continuation) ==
    /\ inflight' = inflight \cup
           { [seq |-> nextRequest, body |-> JSON_parse(JSON_stringify(papers)),
              then |-> continuation] }
    /\ nextRequest' = nextRequest + 1
    /\ savedComments' =
           [r \in DOMAIN savedComments |->
               savedComments[r] \cup {papers[paperIndex + 1].reviews[r].metrics.comment}]

\* A history record: the handler, the item it was invoked through, the
\* current paper before it ran (kept for Clear Evaluation only) and the
\* number the next request had before it ran.
Op(op, item, prior) ==
    [op |-> op, item |-> item, prior |-> prior, request |-> nextRequest]

\* The module's variables as the script leaves them before loadPapers runs.
ScriptLoaded ==
    /\ page = "loading"
    /\ appConfig = [showHarmonizedByDefault |-> FALSE, shuffleReviews |-> FALSE,
                    shuffleSeed |-> 0]
    /\ allPapers = << >>
    /\ paperIndex = 0
    /\ rendered = << >>
    /\ textarea = << >>
    /\ focused = 0
    /\ commentSaveTimeouts = << >>
    /\ timers = {}
    /\ nextTimerId = 1
    /\ inflight = {}
    /\ nextRequest = 1
    /\ events = 0
    /\ lastOp = Op("none", 0, NoPaper)
    /\ runSaves = << >>
    /\ savedComments = << >>
    /\ dropped = FALSE
    /\ filteredPaperIndices = << >>
    /\ currentFilteredIndex = -1
    /\ prevBtnDisabled = FALSE
    /\ nextBtnDisabled = FALSE
    /\ navTarget = NoTarget

\* The value null where a string may stand; no string of the model is it.
null == "<null>"

\* No Chart instance: `chart` is null.
NoChart == [id |-> 0]

\* The counts the pages show (updateStatistics) for no paper.
NoStatistics == [total |-> 0, completed |-> 0, in_progress |-> 0, not_started |-> 0]

\* The catalog's and the dashboard's globals and DOM as their scripts leave
\* them before loadPapers runs, and the workspace's iframe.
SiteScriptLoaded ==
    /\ pdfViewer = "empty"
    /\ handlerLog = << >>
    /\ filters = NoFilters
    /\ papersList = [kind |-> "initial", cards |-> << >>]
    /\ statistics = NoStatistics
    /\ selectedEvaluator = null
    /\ sections = "initial"
    /\ chart = NoChart
    /\ reviewTheme = null
    /\ mediaQuery = [present |-> TRUE, matches |-> FALSE]
    /\ handoff = [from |-> "none"]

\* A page view of the workspace: the collection the gateway holds, the stored
\* filters, the URL and the answer of GET /config are the environment's.
PageView(collections, stored, urls, responses, handlers) ==
    /\ ScriptLoaded
    /\ durable \in collections
    /\ localStorage \in stored
    /\ locationSearch \in urls
    /\ configResponse \in responses
    /\ budget = handlers
    /\ papersResponse = "ok"
    /\ location = "evaluate.html"
    /\ SiteScriptLoaded
    /\ storedEvaluator = null
    /\ theme = "light"
    /\ fnArg = NoPaper
    /\ fnRet = [op |-> "idle"]

\* No page view: only the function under test runs.
NoPageView ==
    /\ ScriptLoaded
    /\ durable = << >>
    /\ localStorage = StoredAbsent
    /\ locationSearch = UrlAbsent
    /\ configResponse = ConfigFailure
    /\ budget = 0
    /\ papersResponse = "ok"
    /\ location = "evaluate.html"
    /\ SiteScriptLoaded
    /\ storedEvaluator = null
    /\ theme = "light"

\* A page view opened from the catalog with no filter stored.
Init ==
    PageView(Collections, {StoredAbsent},
             {UrlParam(<< "0" >>), UrlParam(<< "1" >>)},
             {ConfigOk(config) : config \in Configs}, MaxEvents)

\* A fetch that takes every answer for the collection.
fetchPapersIgnoringFailure(response, stored) == [ok |-> TRUE, papers |-> stored]

\* await fetch('/reviews/evaluation-data-all-venues.json') and await
\* response.json(): the collection, or an exception where the fetch rejects
\* or the body is not JSON.
fetchPapers(response, stored) ==
    IF response = "ok" THEN [ok |-> TRUE, papers |-> stored] ELSE [ok |-> FALSE]

\* loadPapers.  A fetch that rejects, or a body that is not JSON, ends the
\* try block in the catch: the title reads 'Error loading paper' and nothing
\* else was written.  Every paper of the model has a url, so renderPaper
\* points the iframe at its PDF.
LoadPapers ==
    /\ location = "evaluate.html"
    /\ page = "loading"
    /\ LET config == loadConfig(configResponse)
           indices == getFilteredPapers(durable, localStorage)
           idx == parseInt(locationSearch)
       IN  /\ appConfig' = config
           /\ IF ~fetchPapers(papersResponse, durable).ok
              THEN /\ page' = "error"
                   /\ UNCHANGED << allPapers, filteredPaperIndices, paperIndex,
                                   currentFilteredIndex, rendered, textarea,
                                   commentSaveTimeouts, runSaves, savedComments,
                                   prevBtnDisabled, nextBtnDisabled, pdfViewer >>
              ELSE
                   /\ filteredPaperIndices' = indices
                   /\ paperIndex' = idx
                   /\ IF idx # NaN /\ idx >= 0 /\ idx < Len(durable)
                      THEN LET items == renderReviews(durable[idx + 1], config, idx)
                               position == indexOf(indices, idx)
                           IN  /\ page' = "open"
                               /\ allPapers' =
                                      [durable EXCEPT ![idx + 1].reviews =
                                          reviewsAfterRender(durable[idx + 1], config, idx)]
                               /\ currentFilteredIndex' = position
                               /\ rendered' = items
                               /\ textarea' = setupCommentInputs(durable[idx + 1], items)
                               /\ commentSaveTimeouts' =
                                      [r \in 1..Len(durable[idx + 1].reviews) |-> 0]
                               /\ runSaves' = [r \in 1..Len(durable[idx + 1].reviews) |-> 0]
                               /\ savedComments' =
                                      [r \in 1..Len(durable[idx + 1].reviews) |->
                                          {durable[idx + 1].reviews[r].metrics.comment}]
                               /\ prevBtnDisabled' = (position <= 0)
                               /\ nextBtnDisabled' = (position >= Len(indices) - 1)
                               /\ pdfViewer' = "loading"
                      ELSE /\ page' = "notfound"
                           /\ allPapers' = durable
                           /\ UNCHANGED << currentFilteredIndex, rendered, textarea,
                                           commentSaveTimeouts, runSaves, savedComments,
                                           prevBtnDisabled, nextBtnDisabled, pdfViewer >>
    /\ lastOp' = Op("load", 0, NoPaper)
    /\ UNCHANGED << focused, timers, nextTimerId, inflight, nextRequest, durable,
                    events, dropped, navTarget, fnVars, envVars, location,
                    handlerLog, siteVars >>

\* The page answers to the user: a paper is shown, or 'Paper not found' is.
Interactive == page \in {"open", "notfound"}

\* A handler of a click: the click takes the focus off a focused textarea
\* first, so its blur handler has already run.
Clickable(item) ==
    /\ Interactive
    /\ focused = 0
    /\ events < budget
    /\ item \in DOMAIN rendered

\* A click that rates every review of the paper.
setRatingOfEveryReview(paper, reviewIndex, metricKey, value) ==
    [paper EXCEPT !.reviews = [r \in DOMAIN @ |->
                                  [@[r] EXCEPT !.metrics[metricKey] = value]]]

\* A click on the star already selected that unsets the metric.
setRatingToggle(paper, reviewIndex, metricKey, value) ==
    [paper EXCEPT !.reviews[reviewIndex].metrics[metricKey] =
                      IF @ = value THEN 0 ELSE value]

\* currentPaper.reviews[reviewIndex].metrics[metricKey] = value
setRating(paper, reviewIndex, metricKey, value) ==
    [paper EXCEPT !.reviews[reviewIndex].metrics[metricKey] = value]

\* setupStarRatings, the click handler of a star.
RateMetric(item, metricKey, value) ==
    /\ Clickable(item)
    /\ LET reviewIndex == rendered[item].dataReview
           rated == setRating(currentPaper, reviewIndex, metricKey, value)
           updated == [rated EXCEPT !.status = updatePaperStatus(rated)]
       IN  /\ allPapers' = withCurrentPaper(updated)
           /\ saveEvaluation(withCurrentPaper(updated), "none")
    /\ events' = events + 1
    /\ lastOp' = Op("rate", item, NoPaper) @@ [metric |-> metricKey, value |-> value]
    /\ UNCHANGED << page, appConfig, paperIndex, rendered, textarea, focused,
                    commentSaveTimeouts, timers, nextTimerId, durable, runSaves,
                    dropped, fnVars, envVars, navVars, docVars, siteVars >>

\* Source buttons that store the legacy codes.
SetSourceLegacy(item, value) ==
    /\ Clickable(item)
    /\ LET reviewIndex == rendered[item].dataReview
           sourced == [currentPaper EXCEPT
                          !.reviews[reviewIndex].metrics["source"] =
                              IF value = "ai" THEN "1" ELSE "2"]
           updated == [sourced EXCEPT !.status = updatePaperStatus(sourced)]
       IN  /\ allPapers' = withCurrentPaper(updated)
           /\ saveEvaluation(withCurrentPaper(updated), "none")
    /\ events' = events + 1
    /\ lastOp' = Op("source", item, NoPaper)
    /\ UNCHANGED << page, appConfig, paperIndex, rendered, textarea, focused,
                    commentSaveTimeouts, timers, nextTimerId, durable, runSaves,
                    dropped, fnVars, envVars, navVars, docVars, siteVars >>

\* setupSourceButtons, the click handler of the AI and Human buttons.
SetSource(item, value) ==
    /\ Clickable(item)
    /\ LET reviewIndex == rendered[item].dataReview
           sourced == [currentPaper EXCEPT
                          !.reviews[reviewIndex].metrics["source"] = value]
           updated == [sourced EXCEPT !.status = updatePaperStatus(sourced)]
       IN  /\ allPapers' = withCurrentPaper(updated)
           /\ saveEvaluation(withCurrentPaper(updated), "none")
    /\ events' = events + 1
    /\ lastOp' = Op("source", item, NoPaper)
    /\ UNCHANGED << page, appConfig, paperIndex, rendered, textarea, focused,
                    commentSaveTimeouts, timers, nextTimerId, durable, runSaves,
                    dropped, fnVars, envVars, navVars, docVars, siteVars >>

\* An input handler that schedules without cancelling.
inputCancelNothing(scheduled, handle) == scheduled

\* setupCommentInputs, input handler: if (commentSaveTimeouts[reviewIndex])
\* clearTimeout(commentSaveTimeouts[reviewIndex]).
inputCancelPending(scheduled, handle) ==
    IF handle # 0 THEN {t \in scheduled : t.id # handle} ELSE scheduled

\* A blur handler that forgets the handle without cancelling the timer.
blurCancelNothing(scheduled, handle) == scheduled

\* setupCommentInputs, blur handler: the same test and clearTimeout.
blurCancelPending(scheduled, handle) ==
    IF handle # 0 THEN {t \in scheduled : t.id # handle} ELSE scheduled

\* The user puts the caret into an item's comment field.
FocusComment(item) ==
    /\ Clickable(item)
    /\ focused' = item
    /\ lastOp' = Op("focus", item, NoPaper)
    /\ UNCHANGED << page, appConfig, allPapers, paperIndex, rendered, textarea,
                    commentSaveTimeouts, timers, nextTimerId, inflight,
                    nextRequest, durable, events, runSaves, savedComments,
                    dropped, fnVars, envVars, navVars, docVars, siteVars >>

\* setupCommentInputs, the input handler: one keystroke in the focused field.
TypeComment(item, ch) ==
    /\ page = "open"
    /\ focused = item
    /\ events < budget
    /\ LET reviewIndex == rendered[item].dataReview
           value == textarea[item] \o ch
       IN  /\ textarea' = [textarea EXCEPT ![item] = value]
           /\ allPapers' = withCurrentPaper(
                  [currentPaper EXCEPT !.reviews[reviewIndex].metrics.comment = value])
           /\ timers' = inputCancelPending(timers, commentSaveTimeouts[reviewIndex])
                            \cup {[id |-> nextTimerId, review |-> reviewIndex]}
           /\ commentSaveTimeouts' =
                  [commentSaveTimeouts EXCEPT ![reviewIndex] = nextTimerId]
           /\ runSaves' = [runSaves EXCEPT ![reviewIndex] =
                  IF \E t \in timers : t.review = reviewIndex THEN @ ELSE 0]
    /\ nextTimerId' = nextTimerId + 1
    /\ events' = events + 1
    /\ lastOp' = Op("input", item, NoPaper)
    /\ UNCHANGED << page, appConfig, paperIndex, rendered, focused, inflight,
                    nextRequest, durable, savedComments, dropped, fnVars, envVars, navVars, docVars, siteVars >>

\* setupCommentInputs, the blur handler: the focused field loses the focus.
BlurComment(item) ==
    /\ page = "open"
    /\ focused = item
    /\ item \in DOMAIN rendered
    /\ events < budget
    /\ LET reviewIndex == rendered[item].dataReview
           flushed == [currentPaper EXCEPT
                          !.reviews[reviewIndex].metrics.comment = textarea[item]]
       IN  /\ timers' = blurCancelPending(timers, commentSaveTimeouts[reviewIndex])
           /\ commentSaveTimeouts' = [commentSaveTimeouts EXCEPT ![reviewIndex] = 0]
           /\ allPapers' = withCurrentPaper(flushed)
           /\ saveEvaluation(withCurrentPaper(flushed), "none")
    /\ focused' = 0
    /\ events' = events + 1
    /\ lastOp' = Op("blur", item, NoPaper)
    /\ UNCHANGED << page, appConfig, paperIndex, rendered, textarea, nextTimerId,
                    durable, runSaves, dropped, fnVars, envVars, navVars, docVars, siteVars >>

\* The callback the input handler scheduled, 600 ms after the keystroke.
TimerFire(t) ==
    /\ page = "open"
    /\ t \in timers
    /\ timers' = timers \ {t}
    /\ commentSaveTimeouts' = [commentSaveTimeouts EXCEPT ![t.review] = 0]
    /\ saveEvaluation(allPapers, "none")
    /\ runSaves' = [runSaves EXCEPT ![t.review] = @ + 1]
    /\ lastOp' = Op("timer", 0, NoPaper)
    /\ UNCHANGED << page, appConfig, allPapers, paperIndex, rendered, textarea,
                    focused, nextTimerId, durable, events, dropped, fnVars, envVars, navVars, docVars, siteVars >>

\* A clear that leaves the comment in place.
clearMetricsKeepComment(metrics) ==
    [metrics EXCEPT !.coverage = 0, !.specificity = 0, !.correctness = 0,
                    !.constructiveness = 0, !.stance = 0, !.source = ""]

\* setupClearEvaluationButtons: the seven assignments of the click handler.
clearMetrics(metrics) ==
    [metrics EXCEPT !.coverage = 0, !.specificity = 0, !.correctness = 0,
                    !.constructiveness = 0, !.stance = 0, !.source = "",
                    !.comment = ""]

\* Clear Evaluation, confirmed: clear, save, and render again once the save
\* has been answered.
ClearEvaluation(item) ==
    /\ Clickable(item)
    /\ LET reviewIndex == rendered[item].dataReview
           cleared == [currentPaper EXCEPT
                          !.reviews[reviewIndex].metrics = clearMetrics(@)]
       IN  /\ allPapers' = withCurrentPaper(cleared)
           /\ saveEvaluation(withCurrentPaper(cleared), "renderReviews")
    /\ events' = events + 1
    /\ lastOp' = Op("clear", item, currentPaper)
    /\ UNCHANGED << page, appConfig, paperIndex, rendered, textarea, focused,
                    commentSaveTimeouts, timers, nextTimerId, durable, runSaves,
                    dropped, fnVars, envVars, navVars, docVars, siteVars >>

\* A handler that clears whatever the confirmation answers.
DeclineClearStillClears(item) ==
    /\ Clickable(item)
    /\ LET reviewIndex == rendered[item].dataReview
           cleared == [currentPaper EXCEPT
                          !.reviews[reviewIndex].metrics = clearMetrics(@)]
       IN  /\ allPapers' = withCurrentPaper(cleared)
           /\ saveEvaluation(withCurrentPaper(cleared), "renderReviews")
    /\ lastOp' = Op("decline", item, NoPaper)
    /\ UNCHANGED << page, appConfig, paperIndex, rendered, textarea, focused,
                    commentSaveTimeouts, timers, nextTimerId, durable, events,
                    runSaves, dropped, fnVars, envVars, navVars, docVars, siteVars >>

\* Clear Evaluation, the confirmation declined: the handler returns.
DeclineClear(item) ==
    /\ Clickable(item)
    /\ lastOp' = Op("decline", item, NoPaper)
    /\ UNCHANGED << page, appConfig, allPapers, paperIndex, rendered, textarea,
                    focused, commentSaveTimeouts, timers, nextTimerId, inflight,
                    nextRequest, durable, events, runSaves, savedComments,
                    dropped, fnVars, envVars, navVars, docVars, siteVars >>

\* A failure handler that puts the persisted collection back into memory.
catchSaveErrorRollback(papers, persisted) == persisted

\* saveEvaluation, a non-OK response or the catch block: console.error and
\* nothing else; the collection in memory is what it was.
catchSaveError(papers, persisted) == papers

\* The gateway, on a POST it accepts: the durable copy is overwritten with
\* the collection posted.
gatewayOverwrite(stored, body) == body

\* A request is answered while the page is open.  The gateway overwrites its
\* copy with the body (ok), or the request fails; either way the await in
\* saveEvaluation returns and the caller goes on.  Requests are answered in
\* any order.  The model follows one page view and ends when it is left.
Deliver(m, ok) ==
    /\ page = "open"
    /\ m \in inflight
    /\ inflight' = inflight \ {m}
    /\ durable' = IF ok THEN gatewayOverwrite(durable, m.body) ELSE durable
    /\ dropped' = (dropped \/ ~ok)
    /\ LET papers == IF ok THEN allPapers ELSE catchSaveError(allPapers, durable)
           paper == papers[paperIndex + 1]
       IN  IF m.then = "renderReviews"
           THEN LET items == renderReviews(paper, appConfig, paperIndex) IN
                /\ allPapers' =
                       [papers EXCEPT ![paperIndex + 1].reviews =
                           reviewsAfterRender(paper, appConfig, paperIndex)]
                /\ rendered' = items
                /\ textarea' = setupCommentInputs(paper, items)
                /\ focused' = 0
                /\ lastOp' = Op("rerender", 0, NoPaper)
           ELSE /\ allPapers' = papers
                /\ UNCHANGED << rendered, textarea, focused >>
                /\ lastOp' = Op("deliver", 0, NoPaper)
    /\ UNCHANGED << page, appConfig, paperIndex, commentSaveTimeouts,
                    timers, nextTimerId, nextRequest, events, runSaves,
                    savedComments, fnVars, envVars, navVars, docVars, siteVars >>

\* `${paperIndex}`: the decimal digits of a number, after a minus sign if it
\* is negative.
RECURSIVE numberToString(_)
numberToString(n) ==
    IF n < 0 THEN << "-" >> \o numberToString(-n)
    ELSE IF n < 10 THEN << DIGITS[n + 1] >>
    ELSE numberToString(n \div 10) \o << DIGITS[(n % 10) + 1] >>

\* One statement of a handler that leaves the page: what it acts on and the
\* value it assigns.
Effect(act, to) == [act |-> act, to |-> to]

\* The iframe after the statements of `log`.
RECURSIVE viewerAfter(_, _)
viewerAfter(viewer, log) ==
    IF log = << >> THEN viewer
    ELSE viewerAfter(CASE Head(log).act = "pdfViewer.src"    -> "blank"
                       [] Head(log).act = "pdfViewer.remove" -> "removed"
                       [] OTHER                              -> viewer,
                     Tail(log))

\* A navigateToPaper that assigns the location first.
navigateToPaperLocationFirst(viewer, index) ==
    << Effect("location.href", << "evaluate.html?paper=" >> \o numberToString(index)) >>
    \o (IF viewer # "removed"
        THEN << Effect("pdfViewer.src", << "about:blank" >>) >> ELSE << >>)

\* navigateToPaper: its statements in program order.
navigateToPaper(viewer, index) ==
    (IF viewer # "removed"
     THEN << Effect("pdfViewer.src", << "about:blank" >>) >> ELSE << >>)
    \o << Effect("location.href", << "evaluate.html?paper=" >> \o numberToString(index)) >>

\* The click handler of back-button.
backButton(viewer) ==
    (IF viewer # "removed" THEN << Effect("pdfViewer.remove", << >>) >> ELSE << >>)
    \o << Effect("window.stop", << >>), Effect("location.href", << "index.html" >>) >>

\* The beforeunload handler, which the browser runs when the page is about
\* to be left, whatever the cause.
beforeunload(viewer) ==
    IF viewer # "removed" THEN << Effect("pdfViewer.src", << "about:blank" >>) >>
    ELSE << >>

\* prev-paper-btn or the ArrowLeft / 'p' shortcut: navigateToPreviousPaper.
\* A disabled button dispatches no click; the shortcut is ignored while a
\* textarea has the focus.
PreviousPaper(via) ==
    /\ Interactive
    /\ focused = 0
    /\ via = "button" => ~prevBtnDisabled
    /\ LET newIndex == navigateToPreviousPaper(filteredPaperIndices,
                                               currentFilteredIndex)
           statements == navigateToPaper(pdfViewer, newIndex)
           left == viewerAfter(pdfViewer, statements)
       IN  /\ newIndex # NoTarget
           /\ navTarget' = newIndex
           /\ handlerLog' = statements \o beforeunload(left)
           /\ pdfViewer' = viewerAfter(left, beforeunload(left))
    /\ page' = "left"
    /\ lastOp' = Op("prev", 0, NoPaper)
    /\ UNCHANGED << appConfig, allPapers, paperIndex, rendered, textarea, focused,
                    commentSaveTimeouts, timers, nextTimerId, inflight,
                    nextRequest, durable, events, runSaves, savedComments,
                    dropped, fnVars, envVars, filteredPaperIndices,
                    currentFilteredIndex, prevBtnDisabled, nextBtnDisabled,
                    location, siteVars >>

\* next-paper-btn or the ArrowRight / 'n' shortcut: navigateToNextPaper.
NextPaper(via) ==
    /\ Interactive
    /\ focused = 0
    /\ via = "button" => ~nextBtnDisabled
    /\ LET newIndex == navigateToNextPaper(filteredPaperIndices,
                                           currentFilteredIndex)
           statements == navigateToPaper(pdfViewer, newIndex)
           left == viewerAfter(pdfViewer, statements)
       IN  /\ newIndex # NoTarget
           /\ navTarget' = newIndex
           /\ handlerLog' = statements \o beforeunload(left)
           /\ pdfViewer' = viewerAfter(left, beforeunload(left))
    /\ page' = "left"
    /\ lastOp' = Op("next", 0, NoPaper)
    /\ UNCHANGED << appConfig, allPapers, paperIndex, rendered, textarea, focused,
                    commentSaveTimeouts, timers, nextTimerId, inflight,
                    nextRequest, durable, events, runSaves, savedComments,
                    dropped, fnVars, envVars, filteredPaperIndices,
                    currentFilteredIndex, prevBtnDisabled, nextBtnDisabled,
                    location, siteVars >>

\* The page is left otherwise: the back button, or the tab being closed or
\* reloaded (beforeunload).  The back button is a click, which needs the
\* focus outside a textarea; none of the handlers touches
\* commentSaveTimeouts, and the page's timers die with it.
LeavePage(how) ==
    /\ Interactive
    /\ how = "back" => focused = 0
    /\ LET statements == IF how = "back" THEN backButton(pdfViewer) ELSE << >>
           left == viewerAfter(pdfViewer, statements)
       IN  /\ handlerLog' = statements \o beforeunload(left)
           /\ pdfViewer' = viewerAfter(left, beforeunload(left))
    /\ page' = "left"
    /\ lastOp' = Op("leave", 0, NoPaper)
    /\ UNCHANGED << appConfig, allPapers, paperIndex, rendered, textarea, focused,
                    commentSaveTimeouts, timers, nextTimerId, inflight,
                    nextRequest, durable, events, runSaves, savedComments,
                    dropped, fnVars, envVars, navVars, location, siteVars >>

Next ==
    \/ LoadPapers
    \/ \E item \in Items, metricKey \in METRIC_KEYS, value \in StarInputs :
          RateMetric(item, metricKey, value)
    \/ \E item \in Items, value \in {"ai", "human"} : SetSource(item, value)
    \/ \E item \in Items : FocusComment(item)
    \/ \E item \in Items, ch \in KeyInputs : TypeComment(item, ch)
    \/ \E item \in Items : BlurComment(item)
    \/ \E t \in timers : TimerFire(t)
    \/ \E item \in Items : ClearEvaluation(item)
    \/ \E item \in Items : DeclineClear(item)
    \/ \E m \in inflight, ok \in BOOLEAN : Deliver(m, ok)
    \/ \E via \in {"button", "key"} : PreviousPaper(via)
    \/ \E via \in {"button", "key"} : NextPaper(via)
    \/ \E how \in {"back", "unload"} : LeavePage(how)

Spec == Init /\ [][Next]_vars

(***************************************************************************)
(* Page views under every kind of environment: stored filters that narrow  *)
(* the list or are corrupt, URLs with and without a usable index, and a    *)
(* /config that answers or fails.  The handlers are the workspace's.       *)
(***************************************************************************)
MaxLoadEvents == 1

LoadCollections ==
    Collections \cup
    { << CatalogPaper(<< "a" >>, << "bob" >>, << "nlp" >>, << >>,
               "in_progress",
               << Review("X1", Metrics(1, 1, 1, 1, 1, "ai", "")),
                  Review("X2", Metrics(0, 0, 0, 0, 0, "", "")),
                  Review("X3", Metrics(0, 0, 3, 0, 0, "", "c")) >>),
         CatalogPaper(<< "b" >>, << "alice" >>, << "cv" >>, << >>,
               "not_started", << >>),
         CatalogPaper(<< "A" >>, << "bob" >>, << "cv" >>, << >>,
               "completed",
               << Review("Z1", Metrics(2, 2, 2, 2, 2, "human", "")) >>) >> }

LoadStored ==
    { StoredAbsent,
      StoredInvalid,
      StoredJson(JsObject(JsArray(<< "bob" >>), JsUndefined, JsUndefined,
                          JsUndefined, JsUndefined)),
      StoredJson(JsObject(JsUndefined, JsUndefined, JsUndefined, JsUndefined,
                          JsArray(<< "completed" >>))) }

LoadUrls ==
    { UrlAbsent, UrlParam(<< >>), UrlParam(<< "a" >>), UrlParam(<< "-", "1" >>),
      UrlParam(<< "0" >>), UrlParam(<< "1" >>), UrlParam(<< "2" >>),
      UrlParam(<< "3" >>), UrlParam(<< "1", "a" >>) }

LoadResponses ==
    { ConfigOk(config) : config \in Configs } \cup
    { ConfigOk([showHarmonizedByDefault |-> TRUE, shuffleReviews |-> TRUE,
                shuffleSeed |-> 7]),
      ConfigFailure }

InitLoad == PageView(LoadCollections, LoadStored, LoadUrls, LoadResponses, MaxLoadEvents)

SpecLoad == InitLoad /\ [][Next]_vars

(***************************************************************************)
(* Star clicks with every value a row offers, on every paper.              *)
(***************************************************************************)
MaxRateEvents == 1

InitRate ==
    PageView(LoadCollections, {StoredAbsent},
             {UrlParam(<< "0" >>), UrlParam(<< "1" >>), UrlParam(<< "2" >>)},
             {ConfigOk(config) : config \in Configs}, MaxRateEvents)

NextRate ==
    \/ LoadPapers
    \/ \E item \in Items, metricKey \in METRIC_KEYS, value \in 1..MaxStar :
          RateMetric(item, metricKey, value)
    \/ \E m \in inflight, ok \in BOOLEAN : Deliver(m, ok)

SpecRate == InitRate /\ [][NextRate]_vars

(***************************************************************************)
(* The shuffle on its own: an array and a seed are drawn, and the          *)
(* generator or the shuffle is applied.                                    *)
(***************************************************************************)
MaxShuffleLen == 3

MaxShuffleSeed == 5

\* 230538014 is the one state whose exact successor is 0x7fffffff.
ShuffleProbeSeeds == 0..MaxShuffleSeed \cup {42, 43, 12345, 230538014, INT31_MASK}

ShuffleProbeElements == {"a", "b", "c"}

ShuffleProbeArrays ==
    UNION { [1..n -> ShuffleProbeElements] : n \in 0..MaxShuffleLen }

InitShuffle ==
    /\ NoPageView
    /\ fnArg \in [array : ShuffleProbeArrays, seed : ShuffleProbeSeeds]
    /\ fnRet = [op |-> "idle"]

\* shuffleWithSeed's `[...array]`: the swaps are made in the copy, and the
\* array passed is, after the call, what it was.
arrayAfterShuffle(array, seed) == array

\* The loop of shuffleWithSeed once more, keeping of each step the index i,
\* the generator's state after the call of rng() and the j computed from it.
RECURSIVE shuffleDraws(_, _)
shuffleDraws(i, state) ==
    IF i < 1 THEN << >>
    ELSE LET s1 == NextRngState(state)
         IN  << [i |-> i, state |-> s1, j |-> DrawIndex(s1, i + 1)] >>
                 \o shuffleDraws(i - 1, s1)

\* shuffleWithSeed(array, seed), called twice.
ApplyShuffleWithSeed ==
    /\ fnRet.op = "idle"
    /\ fnRet' = [op       |-> "shuffleWithSeed",
                 before   |-> fnArg.array,
                 shuffled |-> shuffleWithSeed(fnArg.array, fnArg.seed),
                 draws    |-> shuffleDraws(Len(fnArg.array) - 1, fnArg.seed),
                 again    |-> shuffleWithSeed(arrayAfterShuffle(fnArg.array, fnArg.seed),
                                              fnArg.seed)]
    /\ fnArg' = [fnArg EXCEPT !.array = arrayAfterShuffle(fnArg.array, fnArg.seed)]
    /\ UNCHANGED wsVars

\* seededRandom(seed): the generator's state after each of its first draws.
ApplySeededRandom ==
    /\ fnRet.op = "idle"
    /\ LET s1 == NextRngState(fnArg.seed)
           s2 == NextRngState(s1)
           s3 == NextRngState(s2)
       IN  fnRet' = [op |-> "seededRandom", states |-> << s1, s2, s3 >>]
    /\ fnArg' = fnArg
    /\ UNCHANGED wsVars

NextShuffle ==
    \/ ApplyShuffleWithSeed
    \/ ApplySeededRandom

SpecShuffle == InitShuffle /\ [][NextShuffle]_vars

(***************************************************************************)
(* The filter store on its own: a collection and a stored value are drawn, *)
(* and the catalog's or the workspace's loader and filter are applied.     *)
(***************************************************************************)
MaxFilterPapers == 2

FilterProbePapers ==
    { CatalogPaper(<< "A", "b" >>, << "alice" >>, << "nlp" >>, << << "a" >> >>,
                   "not_started", << >>),
      CatalogPaper(<< "b", "A", "B" >>, << "bob", "alice" >>, << "cv" >>,
                   << << "B", "a" >>, << "b" >> >>,
                   "in_progress",
                   << Review("T", Metrics(1, 1, 1, 1, 1, "ai", "")),
                      Review("U", Metrics(0, 0, 0, 0, 0, "", "")) >>),
      CatalogPaper(<< >>, << >>, << >>, << >>,
                   "completed",
                   << Review("T", Metrics(1, 1, 1, 1, 1, "ai", "")) >>) }

FilterProbeCollections ==
    UNION { [1..n -> FilterProbePapers] : n \in 0..MaxFilterPapers }

\* Stored values: none, no JSON, null, a number, and objects whose properties
\* are missing, arrays, or numbers.
FilterProbeStored ==
    { StoredAbsent, StoredInvalid, StoredJson(JsNull), StoredJson(JsNumber(5)) }
    \cup
    { StoredJson(JsObject(e, a, k, t, st)) :
        e  \in { JsUndefined, JsArray(<< "alice" >>), JsNumber(5) },
        a  \in { JsUndefined, JsArray(<< "cv" >>), JsNumber(5) },
        k  \in { JsUndefined, JsArray(<< << "a" >> >>),
                 JsArray(<< << "A", "B" >>, << "b" >> >>) },
        t  \in { JsUndefined, JsArray(<< << "a", "B" >> >>) },
        st \in { JsUndefined, JsArray(<< "in_progress" >>), JsNumber(0),
                 JsNumber(5) } }

InitFilter ==
    /\ NoPageView
    /\ fnArg \in [papers : FilterProbeCollections, saved : FilterProbeStored]
    /\ fnRet = [op |-> "idle"]

\* The catalog's loadPapers: loadSavedFilters() on the initial `filters`, then
\* renderPapers, which shows filterPapers() and its statistics.
ApplyFilterPapers ==
    /\ fnRet.op = "idle"
    /\ LET loaded == loadSavedFilters(NoFilters, fnArg.saved)
           papers == filterPapers(fnArg.papers, loaded)
       IN  fnRet' = [op      |-> "filterPapers",
                     filters |-> loaded,
                     papers  |-> papers,
                     stats   |-> updateStatistics(papers)]
    /\ fnArg' = fnArg
    /\ UNCHANGED wsVars

\* The workspace's getFilteredPapers() on the same collection and storage.
ApplyGetFilteredPapers ==
    /\ fnRet.op = "idle"
    /\ fnRet' = [op      |-> "getFilteredPapers",
                 filters |-> loadFilters(fnArg.saved),
                 indices |-> getFilteredPapers(fnArg.papers, fnArg.saved)]
    /\ fnArg' = fnArg
    /\ UNCHANGED wsVars

NextFilter ==
    \/ ApplyFilterPapers
    \/ ApplyGetFilteredPapers

SpecFilter == InitFilter /\ [][NextFilter]_vars

(***************************************************************************)
(* The progress calculator on its own: a paper is drawn, and one of the    *)
(* functions is applied to it.                                             *)
(***************************************************************************)
ProbeSources == {"", "ai", "human", "1", "2", "AI"}

\* Ratings with every metric set, with one metric unset, or with none set.
ProbeMetrics ==
    { [coverage         |-> IF z \in {"coverage", "all"} THEN 0 ELSE 3,
       specificity      |-> IF z \in {"specificity", "all"} THEN 0 ELSE 1,
       correctness      |-> IF z \in {"correctness", "all"} THEN 0 ELSE 5,
       constructiveness |-> IF z \in {"constructiveness", "all"} THEN 0 ELSE 2,
       stance           |-> IF z \in {"stance", "all"} THEN 0 ELSE 4,
       source           |-> src,
       comment          |-> ""] :
      z \in METRIC_KEYS \cup {"none", "all"}, src \in ProbeSources }

ProbePapers ==
    { Paper("not_started", reviews) :
        reviews \in UNION { [1..n -> {Review("T", m) : m \in ProbeMetrics}] :
                            n \in 0..MaxProbeReviews } }

InitProgress ==
    /\ NoPageView
    /\ fnArg \in ProbePapers
    /\ fnRet = [op |-> "idle"]

\* calculateProgress(paper) in each of the three views; the function assigns
\* nothing, so the paper after the call is the paper before it.
ApplyCalculateProgress ==
    /\ fnRet.op = "idle"
    /\ fnRet' = [op        |-> "calculateProgress",
                 before    |-> fnArg,
                 workspace |-> calculateProgress(fnArg),
                 catalog   |-> calculateProgressCatalog(fnArg),
                 dashboard |-> calculateProgressDashboard(fnArg)]
    /\ fnArg' = fnArg
    /\ UNCHANGED wsVars

\* updatePaperStatus() with the paper as currentPaper.
ApplyUpdatePaperStatus ==
    /\ fnRet.op = "idle"
    /\ fnArg' = [fnArg EXCEPT !.status = updatePaperStatus(fnArg)]
    /\ fnRet' = [op |-> "updatePaperStatus"]
    /\ UNCHANGED wsVars

NextProgress ==
    \/ ApplyCalculateProgress
    \/ ApplyUpdatePaperStatus

SpecProgress == InitProgress /\ [][NextProgress]_vars

(***************************************************************************)
(* The catalog (app.js) and the evaluator dashboard                        *)
(* (evaluator-dashboard.js): the documents a workspace page view is opened *)
(* from.  A click that assigns window.location.href ends the document; the *)
(* next one starts from its script's initial state, and only localStorage, *)
(* the URL and the gateway's collection carry over.                        *)
(***************************************************************************)
MaxSiteEvents == 2

\* The workspace's state, which no handler of the other two documents touches.
workspaceVars ==
    << appConfig, paperIndex, rendered, textarea, focused, commentSaveTimeouts,
       timers, nextTimerId, inflight, nextRequest, durable, runSaves,
       savedComments, dropped, navVars, pdfViewer, handlerLog, configResponse,
       budget, papersResponse, fnVars >>

\* Array.from(set): the elements one after the other (the sets of the model
\* keep no insertion order; new Set(array) undoes any order anyway).
RECURSIVE arrayFrom(_)
arrayFrom(set) ==
    IF set = {} THEN << >>
    ELSE LET e == CHOOSE x \in set : TRUE IN << e >> \o arrayFrom(set \ {e})

\* A write that merges into the stored object: the statuses stored stay.
setReviewFiltersKeepingStatuses(evaluators, areas, keywords, titleKeywords, statuses) ==
    StoredJson(JsObject(JsArray(evaluators), JsArray(areas), JsArray(keywords),
                        JsArray(titleKeywords),
                        IF localStorage.kind = "json" /\ localStorage.value.type = "object"
                        THEN localStorage.value.statuses
                        ELSE JsArray(statuses)))

\* localStorage.setItem('reviewFilters', JSON.stringify(filtersData)) with
\* filtersData an object of five arrays of strings: the text stored, held as
\* what JSON.parse reads it as.
setReviewFilters(evaluators, areas, keywords, titleKeywords, statuses) ==
    StoredJson(JsObject(JsArray(evaluators), JsArray(areas), JsArray(keywords),
                        JsArray(titleKeywords), JsArray(statuses)))

\* app.js saveFilters
saveFilters(f) ==
    setReviewFilters(arrayFrom(f.evaluators), arrayFrom(f.areas),
                     arrayFrom(f.keywords), arrayFrom(f.titleKeywords),
                     arrayFrom(f.statuses))

\* A card that passes its position in the list shown.
cardIndexOfPosition(kept, k) == k - 1

\* onclick="openPaper(${allPapers.indexOf(paper)})": `paper` is the element
\* of allPapers the list was filtered from, found again by identity, so the
\* index is the position it was kept from.
cardIndex(kept, k) == kept[k]

\* The cards written into a papers list, or its 'No Papers Found' state:
\* card k shows the k-th paper kept.
paperCards(papers, kept) ==
    [kind  |-> IF kept = << >> THEN "empty" ELSE "cards",
     cards |-> [k \in DOMAIN kept |->
                   [paper |-> papers[kept[k] + 1], onclick |-> cardIndex(kept, k)]]]

\* A render that counts the whole collection.
renderPapersCountingAll(papers, f) ==
    [list  |-> paperCards(papers, keptIndices(papers, f, 1)),
     stats |-> updateStatistics(papers)]

\* app.js renderPapers: the counts and the list, both of filterPapers().
renderPapers(papers, f) ==
    [list  |-> paperCards(papers, keptIndices(papers, f, 1)),
     stats |-> updateStatistics(filterPapers(papers, f))]

\* window.location.href = <another document>: the script state of the next
\* document.
Navigate(document, search) ==
    /\ location' = document
    /\ locationSearch' = search
    /\ page' = "loading"
    /\ allPapers' = << >>
    /\ filters' = NoFilters
    /\ papersList' = [kind |-> "initial", cards |-> << >>]
    /\ statistics' = NoStatistics
    /\ selectedEvaluator' = null
    /\ sections' = "initial"
    /\ chart' = NoChart

\* openPaper(paperIndex), in app.js and in evaluator-dashboard.js.
openPaper(index) == Navigate("evaluate.html", UrlParam(numberToString(index)))

\* app.js loadPapers
LoadCatalog ==
    /\ location = "index.html"
    /\ page = "loading"
    /\ IF fetchPapers(papersResponse, durable).ok
       THEN LET loaded == loadSavedFilters(filters, localStorage)
                view == renderPapers(durable, loaded)
            IN  /\ allPapers' = durable
                /\ filters' = loaded
                /\ papersList' = view.list
                /\ statistics' = view.stats
                /\ page' = "open"
       ELSE /\ papersList' = [kind |-> "error", cards |-> << >>]
            /\ page' = "error"
            /\ UNCHANGED << allPapers, filters, statistics >>
    /\ lastOp' = Op("loadCatalog", 0, NoPaper)
    /\ UNCHANGED << workspaceVars, events, localStorage, locationSearch, location,
                    selectedEvaluator, storedEvaluator, sections, chart, theme,
                    reviewTheme, mediaQuery,
                    handoff >>

\* The values a filter control can add or remove: the checkboxes of the
\* evaluator and area lists (rendered from the collection), a keyword typed
\* or its tag, and the three status checkboxes.
FilterInputs(field) ==
    CASE field = "evaluators"    -> UNION {Range(allPapers[p].evaluators) : p \in DOMAIN allPapers}
      [] field = "areas"         -> UNION {Range(allPapers[p].primary_area) : p \in DOMAIN allPapers}
      [] field = "keywords"      -> {<< "a" >>}
      [] field = "titleKeywords" -> {<< "B" >>}
      [] field = "statuses"      -> {"completed", "in_progress", "not_started"}

\* The change handlers of the filter checkboxes, the keypress handlers of the
\* two search fields and removeKeyword / removeTitleKeyword: each changes one
\* set of `filters`, then saveFilters() and renderPapers().  The status
\* checkboxes and the search fields are static and work even where the
\* collection was not loaded.
ChangeFilter(field, value) ==
    /\ location = "index.html"
    /\ page \in {"open", "error"}
    /\ events < budget
    /\ value \in FilterInputs(field)
    /\ LET changed == [filters EXCEPT ![field] =
                          IF value \in @ THEN @ \ {value} ELSE @ \cup {value}]
           view == renderPapers(allPapers, changed)
       IN  /\ filters' = changed
           /\ localStorage' = saveFilters(changed)
           /\ papersList' = view.list
           /\ statistics' = view.stats
    /\ events' = events + 1
    /\ lastOp' = Op("filter", 0, NoPaper)
    /\ UNCHANGED << workspaceVars, page, allPapers, locationSearch, location,
                    selectedEvaluator, storedEvaluator, sections, chart, theme,
                    reviewTheme, mediaQuery,
                    handoff >>

\* A click on card k of the list shown, in the catalog or in the dashboard.
OpenCard(k) ==
    /\ location \in {"index.html", "evaluator-dashboard.html"}
    /\ papersList.kind = "cards"
    /\ location = "evaluator-dashboard.html" => sections = "shown"
    /\ k \in DOMAIN papersList.cards
    /\ openPaper(papersList.cards[k].onclick)
    /\ handoff' = [from |-> location, position |-> k - 1,
                   paper |-> papersList.cards[k].paper]
    /\ lastOp' = Op("open", 0, NoPaper)
    /\ UNCHANGED << workspaceVars, events, localStorage, storedEvaluator, theme,
                    reviewTheme, mediaQuery >>

\* getComputedStyle(document.body).getPropertyValue(name): the stylesheet,
\* which sets the chart's custom properties for the dark theme only.
getPropertyValue(t, name) == IF t = "dark" THEN name \o " (dark)" ELSE ""

\* getChartColors, and toColor in applyChartTheme: the value read, or the
\* fallback where it is empty.
getChartColors(t) ==
    LET readVar(name, fallback) ==
            IF getPropertyValue(t, name) # "" THEN getPropertyValue(t, name)
            ELSE fallback
    IN  [bar       |-> readVar("--chart-bar-color", "rgba(54, 162, 235, 0.6)"),
         border    |-> readVar("--chart-bar-border", "rgba(54, 162, 235, 1)"),
         grid      |-> readVar("--chart-grid-color", "rgba(226, 232, 240, 0.25)"),
         text      |-> readVar("--chart-text-color", "#2d3748"),
         tooltipBg |-> readVar("--color-tooltip-bg", "#333333")]

\* applyChartTheme: the colours are assigned to the instance's datasets and
\* options, and chartInstance.update('none') draws it again.
applyChartTheme(chartInstance, t) ==
    IF chartInstance = NoChart THEN chartInstance
    ELSE [chartInstance EXCEPT !.colors = getChartColors(t), !.updates = @ + 1]

\* The characters of a string, one after the other.
chars(s) == [i \in 1..Len(s) |-> SubSeq(s, i, i)]

\* A property key that is an array index: the canonical decimal form of an
\* integer in 0..2^32 - 2.  Keys of up to nine digits are decided here; a
\* name of ten digits is no area of the model.
isArrayIndex(key) ==
    /\ Len(key) \in 1..9
    /\ \A i \in 1..Len(key) : isDigit(chars(key)[i])
    /\ Len(key) > 1 => chars(key)[1] # "0"

\* The keys of a sequence of property assignments, each once, in the order
\* of their first assignment.
RECURSIVE insertionOrder(_, _)
insertionOrder(assigned, seen) ==
    IF assigned = << >> THEN << >>
    ELSE IF Head(assigned) \in seen THEN insertionOrder(Tail(assigned), seen)
    ELSE << Head(assigned) >> \o insertionOrder(Tail(assigned), seen \cup {Head(assigned)})

\* Object.entries(areaCounts) after areaCounts[area] = (areaCounts[area] || 0) + 1
\* for each element of `assigned`: the own keys in the order of
\* OrdinaryOwnPropertyKeys, array indices first in ascending numeric order,
\* then the other keys in the order of their creation; each with its count.
objectEntries(assigned) ==
    LET created == insertionOrder(assigned, {})
        indices == {created[k] : k \in {j \in DOMAIN created : isArrayIndex(created[j])}}
        value(key) == decimalValue(chars(key), 0)
        ascending == [k \in 1..Cardinality(indices) |->
                         CHOOSE key \in indices :
                             Cardinality({other \in indices : value(other) < value(key)}) = k - 1]
        keys == ascending \o SelectSeq(created, LAMBDA key : ~isArrayIndex(key))
    IN  [k \in DOMAIN keys |->
            << keys[k], Cardinality({i \in DOMAIN assigned : assigned[i] = keys[k]}) >>]

\* entries.sort((a, b) => b[1] - a[1]): descending by count; the sort is
\* stable, so entries of equal count keep their order.
sortByCount(entries) ==
    LET before(i, j) == entries[i][2] > entries[j][2]
                           \/ (entries[i][2] = entries[j][2] /\ i < j)
        rank(i) == 1 + Cardinality({j \in DOMAIN entries : before(j, i)})
    IN  [k \in DOMAIN entries |-> entries[CHOOSE i \in DOMAIN entries : rank(i) = k]]

\* The areas of the papers, in the order paper.primary_area.forEach meets them.
RECURSIVE areasMet(_)
areasMet(papers) ==
    IF papers = << >> THEN << >>
    ELSE Head(papers).primary_area \o areasMet(Tail(papers))

\* updateChart: the occurrences per research area, Object.entries of the
\* counts sorted by count and cut to ten; labels longer than 40 characters
\* are shortened, the tooltip title of bar k is sortedAreas[k][0].  The chart
\* there was is destroyed and a new one is made.
updateChart(papers, old, t) ==
    LET sorted == sortByCount(objectEntries(areasMet(papers)))
        sortedAreas == SubSeq(sorted, 1, IF Len(sorted) < 10 THEN Len(sorted) ELSE 10)
        label(area) == IF Len(area) > 40 THEN SubSeq(area, 1, 37) \o "..." ELSE area
    IN  applyChartTheme([id      |-> old.id + 1,
                         labels  |-> [k \in DOMAIN sortedAreas |-> label(sortedAreas[k][1])],
                         data    |-> [k \in DOMAIN sortedAreas |-> sortedAreas[k][2]],
                         titles  |-> [k \in DOMAIN sortedAreas |-> sortedAreas[k][1]],
                         colors  |-> [bar       |-> "rgba(54, 162, 235, 0.6)",
                                      border    |-> "rgba(54, 162, 235, 1)",
                                      grid      |-> "",
                                      text      |-> "",
                                      tooltipBg |-> ""],
                         updates |-> 0], t)

\* allPapers.filter(paper => paper.evaluators.includes(evaluator)), as the
\* positions (0-based) of the papers kept.
evaluatorPapers(papers, evaluator) ==
    SelectSeq([i \in 1..Len(papers) |-> i - 1],
              LAMBDA i : evaluator \in Range(papers[i + 1].evaluators))

\* selectEvaluator
selectEvaluator(papers, evaluator) ==
    LET kept == evaluatorPapers(papers, evaluator)
        scoped == [k \in DOMAIN kept |-> papers[kept[k] + 1]]
    IN  /\ selectedEvaluator' = evaluator
        /\ storedEvaluator' = evaluator
        /\ sections' = "shown"
        /\ statistics' = updateStatistics(scoped)
        /\ chart' = updateChart(scoped, chart, theme)
        /\ papersList' = paperCards(papers, kept)

\* evaluator-dashboard.js loadPapers: on a failure an alert, and nothing is
\* rendered.  `saved || null` reads an empty string as no selection.
LoadDashboard ==
    /\ location = "evaluator-dashboard.html"
    /\ page = "loading"
    /\ IF fetchPapers(papersResponse, durable).ok
       THEN /\ allPapers' = durable
            /\ page' = "open"
            /\ IF storedEvaluator \notin {null, ""}
               THEN selectEvaluator(durable, storedEvaluator)
               ELSE UNCHANGED << selectedEvaluator, storedEvaluator, sections,
                                 statistics, chart, papersList >>
       ELSE /\ page' = "error"
            /\ UNCHANGED << allPapers, selectedEvaluator, storedEvaluator, sections,
                            statistics, chart, papersList >>
    /\ lastOp' = Op("loadDashboard", 0, NoPaper)
    /\ UNCHANGED << workspaceVars, events, localStorage, locationSearch, location,
                    filters, theme, reviewTheme, mediaQuery, handoff >>

\* The change handler of evaluator-selector: an option of the collection's
\* evaluators, or the empty one, which hides the sections and leaves
\* selectedEvaluator as it is.
ChangeEvaluator(value) ==
    /\ location = "evaluator-dashboard.html"
    /\ page = "open"
    /\ events < budget
    /\ value \in UNION {Range(allPapers[p].evaluators) : p \in DOMAIN allPapers} \cup {""}
    /\ IF value # ""
       THEN selectEvaluator(allPapers, value)
       ELSE /\ sections' = "hidden"
            /\ UNCHANGED << selectedEvaluator, storedEvaluator, statistics, chart,
                            papersList >>
    /\ events' = events + 1
    /\ lastOp' = Op("evaluator", 0, NoPaper)
    /\ UNCHANGED << workspaceVars, page, allPapers, localStorage, locationSearch,
                    location, filters, theme, reviewTheme, mediaQuery, handoff >>

\* The click handler of continue-evaluation-btn.  The button is not there to
\* be clicked while hideAllSections keeps its section undisplayed.
ContinueEvaluation ==
    /\ location = "evaluator-dashboard.html"
    /\ sections # "hidden"
    /\ IF selectedEvaluator = null
       THEN /\ lastOp' = Op("alert", 0, NoPaper)
            /\ UNCHANGED << page, allPapers, localStorage, locationSearch, location,
                            filters, papersList, statistics, selectedEvaluator,
                            sections, chart, handoff >>
       ELSE /\ localStorage' = setReviewFilters(<< selectedEvaluator >>, << >>, << >>,
                                               << >>, << >>)
            /\ Navigate("index.html", locationSearch)
            /\ handoff' = [from |-> location, evaluator |-> selectedEvaluator,
                           replaced |-> localStorage]
            /\ lastOp' = Op("continue", 0, NoPaper)
    /\ UNCHANGED << workspaceVars, events, storedEvaluator, theme, reviewTheme, mediaQuery >>

\* A themechange listener that builds the chart anew.
themechangeRebuild(chartInstance, t) ==
    IF chartInstance = NoChart THEN chartInstance
    ELSE applyChartTheme([chartInstance EXCEPT !.id = @ + 1, !.updates = 0], t)

\* The themechange listener of the dashboard: if (chart) applyChartTheme(chart).
themechange(chartInstance, t) ==
    IF chartInstance = NoChart THEN chartInstance
    ELSE applyChartTheme(chartInstance, t)

\* theme.js toggleTheme: applyTheme sets the class and data-theme of the body
\* and dispatches themechange, to which only the dashboard listens.
ToggleTheme ==
    /\ location = "evaluator-dashboard.html"
    /\ events < budget
    /\ LET nextTheme == IF theme = "dark" THEN "light" ELSE "dark" IN
       /\ theme' = nextTheme
       /\ reviewTheme' = nextTheme
       /\ chart' = themechange(chart, nextTheme)
    /\ events' = events + 1
    /\ lastOp' = Op("theme", 0, NoPaper)
    /\ UNCHANGED << workspaceVars, page, allPapers, localStorage, locationSearch,
                    location, filters, papersList, statistics, selectedEvaluator,
                    storedEvaluator, sections, mediaQuery, handoff >>

SiteStored ==
    LoadStored \cup
    { StoredJson(JsObject(JsArray(<< "bob" >>), JsArray(<< "cv" >>), JsUndefined,
                          JsArray(<< << "a" >> >>), JsArray(<< "completed" >>))) }

\* A visit that starts at any of the three documents.
InitSite ==
    /\ ScriptLoaded
    /\ SiteScriptLoaded
    /\ durable \in LoadCollections
    /\ localStorage \in SiteStored
    /\ location \in {"index.html", "evaluator-dashboard.html", "evaluate.html"}
    /\ locationSearch = IF location = "evaluate.html" THEN UrlParam(<< "1" >>)
                        ELSE UrlAbsent
    /\ configResponse \in {ConfigOk(CHOOSE config \in Configs : config.shuffleReviews),
                            ConfigFailure}
    /\ papersResponse \in {"ok", "failed"}
    /\ budget = MaxSiteEvents
    /\ storedEvaluator \in {null, "", "alice", "carol"}
    /\ theme = "light"
    /\ fnArg = NoPaper
    /\ fnRet = [op |-> "idle"]

NextSite ==
    \/ LoadCatalog
    \/ \E field \in Range(FILTER_FIELDS) :
          \E value \in FilterInputs(field) : ChangeFilter(field, value)
    \/ \E k \in 1..3 : OpenCard(k)
    \/ LoadDashboard
    \/ \E value \in {"", "alice", "bob"} : ChangeEvaluator(value)
    \/ ContinueEvaluation
    \/ ToggleTheme
    \/ LoadPapers

SpecSite == InitSite /\ [][NextSite]_vars

(***************************************************************************)
(* The specification's own notions, stated independently of the code.      *)
(***************************************************************************)
RecognizedSources == {"ai", "human", "1", "2"}

\* A review is complete iff all five numeric metrics are > 0 and source is
\* one of the four recognized values.
ReviewComplete(metrics) ==
    /\ \A key \in METRIC_KEYS : metrics[key] > 0
    /\ metrics.source \in RecognizedSources

CompleteReviews(paper) ==
    {r \in DOMAIN paper.reviews : ReviewComplete(paper.reviews[r].metrics)}

\* not_started if no review is complete, completed if all are, else in_progress.
DerivedStatus(paper) ==
    IF CompleteReviews(paper) = {} THEN "not_started"
    ELSE IF CompleteReviews(paper) = DOMAIN paper.reviews THEN "completed"
    ELSE "in_progress"

ClearedMetrics == Metrics(0, 0, 0, 0, 0, "", "")

TimersOf(r) == {t \in timers : t.review = r}

(***************************************************************************)
(* Claims.                                                                 *)
(***************************************************************************)

\* C1: in a step of the open page, a review whose metrics change is the
\* review whose text is displayed by the item through whose controls the
\* edit was made (with shuffling on or off).
C1_ControlsBindShownReview ==
    [][(page = "open" /\ page' = "open") =>
          \A r \in DOMAIN currentPaper.reviews :
             currentPaper'.reviews[r].metrics # currentPaper.reviews[r].metrics
                => /\ lastOp'.item # 0
                   /\ rendered[lastOp'.item].text = currentPaper.reviews[r].text]_vars

\* C2: after a rating, a source selection or a clear, the current paper's
\* status is the one derived from its reviews, and every request in flight
\* carries for the current paper the status derived from the reviews it
\* carries.
C2_StatusMatchesReviews ==
    page # "loading" =>
        /\ lastOp.op \in {"rate", "source", "clear"}
              => currentPaper.status = DerivedStatus(currentPaper)
        /\ \A m \in inflight :
              m.body[paperIndex + 1].status = DerivedStatus(m.body[paperIndex + 1])

\* C3 as stated: the status updatePaperStatus computes is 'completed' iff
\* every review is complete, 'not_started' iff none is, 'in_progress'
\* otherwise, for papers with any number of reviews.
C3_StatusIffAllComplete ==
    fnRet.op = "updatePaperStatus" =>
        /\ fnArg.status = "completed" <=> CompleteReviews(fnArg) = DOMAIN fnArg.reviews
        /\ fnArg.status = "not_started" <=> CompleteReviews(fnArg) = {}
        /\ fnArg.status = "in_progress" <=>
              /\ CompleteReviews(fnArg) # DOMAIN fnArg.reviews
              /\ CompleteReviews(fnArg) # {}

\* C3 amended: for a paper with at least one review the status is
\* 'completed' iff every review is complete, 'not_started' iff none is and
\* 'in_progress' otherwise; for a paper without reviews it is 'not_started'.
C3_StatusOfNonEmptyPaper ==
    fnRet.op = "updatePaperStatus" =>
        IF Len(fnArg.reviews) = 0 THEN fnArg.status = "not_started"
        ELSE /\ fnArg.status = "completed"
                   <=> CompleteReviews(fnArg) = DOMAIN fnArg.reviews
             /\ fnArg.status = "not_started" <=> CompleteReviews(fnArg) = {}
             /\ fnArg.status = "in_progress" <=>
                   /\ CompleteReviews(fnArg) # DOMAIN fnArg.reviews
                   /\ CompleteReviews(fnArg) # {}

C3_Witness ==
    /\ fnRet.op = "updatePaperStatus"
    /\ Len(fnArg.reviews) = 2
    /\ Cardinality(CompleteReviews(fnArg)) = 1
    /\ fnArg.status = "in_progress"

\* C4: calculateProgress returns the number of reviews as total and the
\* number of complete reviews as completed, leaves the paper as it was, and
\* its three copies agree.
C4_ProgressCounts ==
    fnRet.op = "calculateProgress" =>
        /\ fnRet.workspace = [completed |-> Cardinality(CompleteReviews(fnRet.before)),
                              total |-> Len(fnRet.before.reviews)]
        /\ fnRet.catalog = fnRet.workspace
        /\ fnRet.dashboard = fnRet.workspace
        /\ fnArg = fnRet.before

C4_Witness ==
    /\ fnRet.op = "calculateProgress"
    /\ fnRet.workspace = [completed |-> 1, total |-> 2]
    /\ \E r \in DOMAIN fnArg.reviews : fnArg.reviews[r].metrics.source = "2"

\* C5: at any time at most one save request is in flight.
C5_SingleFlight == Cardinality(inflight) <= 1

\* C6: once every issued request has been processed by the gateway and no
\* debounce timer is pending, the durable copy equals the in-memory
\* collection.
C6_DurableEqualsMemory ==
    (page = "open" /\ inflight = {} /\ timers = {} /\ ~dropped)
        => durable = allPapers

\* C7: a keystroke stores the field's text in memory and leaves exactly its
\* own timer pending for the review (the earlier one is cancelled); a run of
\* keystrokes, each arriving while the previous timer is pending, gets at
\* most one timer-driven save, and that only once no timer of the run is
\* pending any more; the timer-driven save carries the collection as it is.
C7_DebounceOneSave ==
    page # "loading" =>
        /\ \A r \in DOMAIN runSaves :
              /\ Cardinality(TimersOf(r)) <= 1
              /\ \A t \in TimersOf(r) : t.id = commentSaveTimeouts[r]
              /\ runSaves[r] <= 1
              /\ runSaves[r] = 1 => TimersOf(r) = {}
        /\ lastOp.op = "input" =>
              LET r == rendered[lastOp.item].dataReview IN
              /\ currentPaper.reviews[r].metrics.comment = textarea[lastOp.item]
              /\ TimersOf(r) = {[id |-> nextTimerId - 1, review |-> r]}
              /\ nextRequest = lastOp.request
        /\ lastOp.op = "timer" =>
              /\ nextRequest = lastOp.request + 1
              /\ \E m \in inflight : m.seq = lastOp.request /\ m.body = allPapers

\* Two keystrokes in one run, and the one save issued so far is the timer's.
C7_Witness ==
    /\ lastOp.op = "timer"
    /\ nextTimerId = 3
    /\ nextRequest = 2
    /\ timers = {}

\* C8: right after a blur no timer of that review is pending, and the blur
\* has issued exactly one request, whose body carries the field's text.
C8_BlurFlushes ==
    lastOp.op = "blur" =>
        LET r == rendered[lastOp.item].dataReview IN
        /\ TimersOf(r) = {}
        /\ commentSaveTimeouts[r] = 0
        /\ nextRequest = lastOp.request + 1
        /\ \E m \in inflight :
              /\ m.seq = lastOp.request
              /\ m.body[paperIndex + 1].reviews[r].metrics.comment = textarea[lastOp.item]
              /\ m.body = allPapers

\* A blur right after a keystroke whose timer had not fired.
C8_Witness ==
    /\ lastOp.op = "blur"
    /\ nextTimerId = 2
    /\ nextRequest = 2
    /\ textarea[lastOp.item] \in {"x", "ax"}

\* C9: when the page has been left, no debounce timer is pending and every
\* comment in memory has been carried by an issued request.
C9_NoKeystrokeLost ==
    page = "left" =>
        /\ timers = {}
        /\ \A r \in DOMAIN currentPaper.reviews :
              currentPaper.reviews[r].metrics.comment \in savedComments[r]

\* C10: right after a confirmed clear, the metrics of the review the button
\* is bound to are exactly the cleared ones, the number of completed reviews
\* is one less than before if that review was complete and the same
\* otherwise, and the handler has issued one request carrying that state.
C10_ClearResets ==
    lastOp.op = "clear" =>
        LET r == rendered[lastOp.item].dataReview IN
        /\ currentPaper.reviews[r].metrics = ClearedMetrics
        /\ calculateProgress(currentPaper).completed =
              calculateProgress(lastOp.prior).completed
                 - (IF ReviewComplete(lastOp.prior.reviews[r].metrics) THEN 1 ELSE 0)
        /\ nextRequest = lastOp.request + 1
        /\ \E m \in inflight : m.seq = lastOp.request /\ m.body = allPapers

\* A clear of a review that was complete and carried a comment.
C10_Witness ==
    /\ lastOp.op = "clear"
    /\ ReviewComplete(lastOp.prior.reviews[rendered[lastOp.item].dataReview].metrics)
    /\ lastOp.prior.reviews[rendered[lastOp.item].dataReview].metrics.comment # ""

\* Spec-level notions of the filter store.
UpperCaseOf(c) ==
    CASE c = "a" -> "A"
      [] c = "b" -> "B"
      [] OTHER   -> c

CaseInsensitiveSubstring(term, text) ==
    \E k \in 0..(Len(text) - Len(term)) :
        \A i \in 1..Len(term) : UpperCaseOf(text[k + i]) = UpperCaseOf(term[i])

PassesFilter(paper, f) ==
    /\ f.evaluators = {} \/ \E i \in DOMAIN paper.evaluators : paper.evaluators[i] \in f.evaluators
    /\ f.areas = {} \/ \E i \in DOMAIN paper.primary_area : paper.primary_area[i] \in f.areas
    /\ \A term \in f.keywords :
           \E i \in DOMAIN paper.keywords : CaseInsensitiveSubstring(term, paper.keywords[i])
    /\ \A term \in f.titleKeywords : CaseInsensitiveSubstring(term, paper.title)
    /\ f.statuses = {} \/ paper.status \in f.statuses

PassingIndices(papers, f) == {i \in 0..(Len(papers) - 1) : PassesFilter(papers[i + 1], f)}

StrictlyIncreasing(seq) == \A i, j \in DOMAIN seq : i < j => seq[i] < seq[j]

\* The filter state a loader's result stands for.
FilterStateOf(loaded) ==
    IF loaded.isNull THEN NoFilters
    ELSE [f \in DOMAIN NoFilters |-> loaded[f]]

\* C11: a paper passes iff the five field conditions hold together, in the
\* catalog (the papers kept, in collection order) and in the workspace (their
\* indices, in collection order).
C11_FilterSemantics ==
    /\ fnRet.op = "filterPapers" =>
           fnRet.papers = SelectSeq(fnArg.papers,
                                    LAMBDA p : PassesFilter(p, fnRet.filters))
    /\ fnRet.op = "getFilteredPapers" =>
           /\ StrictlyIncreasing(fnRet.indices)
           /\ Range(fnRet.indices) =
                  PassingIndices(fnArg.papers, FilterStateOf(fnRet.filters))

\* A title term that matches only when case is ignored keeps one paper of two.
C11_Witness ==
    /\ fnRet.op = "getFilteredPapers"
    /\ ~fnRet.filters.isNull
    /\ fnRet.filters.titleKeywords = {<< "a", "B" >>}
    /\ fnRet.filters.keywords = {}
    /\ Len(fnArg.papers) = 2
    /\ fnRet.indices = << 1 >>

\* A stored value that is absent, not JSON, or has a property that cannot be
\* iterated.
UnusableStored(saved) ==
    \/ saved.kind \in {"absent", "invalid"}
    \/ /\ saved.kind = "json"
       /\ \/ saved.value.type # "object"
          \/ /\ saved.value.type = "object"
             /\ \E k \in DOMAIN FILTER_FIELDS :
                    LET property == saved.value[FILTER_FIELDS[k]] IN
                    property.type = "number" /\ property.value # 0

\* C12: from an unusable stored value both loaders end in the 'no filters'
\* state, in which every paper passes.
C12_CorruptStoredMeansNoFilters ==
    UnusableStored(fnArg.saved) =>
        /\ fnRet.op = "filterPapers" =>
               fnRet.filters = NoFilters /\ fnRet.papers = fnArg.papers
        /\ fnRet.op = "getFilteredPapers" =>
               fnRet.indices = [i \in 1..Len(fnArg.papers) |-> i - 1]

\* The stored filter that names one status.
StatusFilter(status) ==
    StoredJson(JsObject(JsUndefined, JsUndefined, JsUndefined, JsUndefined,
                        JsArray(<< status >>)))

DerivedIndices(papers, status) ==
    {i \in 0..(Len(papers) - 1) : DerivedStatus(papers[i + 1]) = status}

\* C13: on the collection the gateway holds (the one a page load reads),
\* filtering by a status yields the papers whose status derived from their
\* reviews is that status, in the workspace and in the catalog, and the
\* statistics count each paper under its derived status.
C13_StatusFromReviews ==
    /\ \A status \in {"not_started", "in_progress", "completed"} :
           /\ Range(getFilteredPapers(durable, StatusFilter(status))) =
                  DerivedIndices(durable, status)
           /\ filterPapers(durable, loadSavedFilters(NoFilters, StatusFilter(status))) =
                  SelectSeq(durable, LAMBDA p : DerivedStatus(p) = status)
    /\ LET stats == updateStatistics(durable) IN
       /\ stats.completed = Cardinality(DerivedIndices(durable, "completed"))
       /\ stats.in_progress = Cardinality(DerivedIndices(durable, "in_progress"))
       /\ stats.not_started = Cardinality(DerivedIndices(durable, "not_started"))

\* A paper is (or was, before the page was left) shown.
PaperShown ==
    /\ page \in {"open", "left"}
    /\ paperIndex # NaN
    /\ paperIndex >= 0
    /\ paperIndex < Len(allPapers)

\* C14: prev and next only ever navigate to an index of the filtered list;
\* prev navigates from no position before the second, next from no position
\* after the last but one, whether or not the paper shown is in the list;
\* with a paper shown, prev is disabled at the first position and next at
\* the last.
C14_NavigationInsideFilter ==
    /\ navTarget # NoTarget => navTarget \in Range(filteredPaperIndices)
    /\ lastOp.op = "prev" =>
           /\ currentFilteredIndex >= 1
           /\ navTarget = filteredPaperIndices[currentFilteredIndex]
    /\ lastOp.op = "next" =>
           /\ currentFilteredIndex <= Len(filteredPaperIndices) - 2
           /\ navTarget = filteredPaperIndices[currentFilteredIndex + 2]
    /\ PaperShown =>
           /\ currentFilteredIndex <= 0 => prevBtnDisabled
           /\ currentFilteredIndex = Len(filteredPaperIndices) - 1 => nextBtnDisabled
           /\ currentFilteredIndex = indexOf(filteredPaperIndices, paperIndex)

\* The paper shown is outside the filtered list and next leads into the list.
C14_Witness ==
    /\ PaperShown
    /\ page = "left"
    /\ lastOp.op = "next"
    /\ paperIndex \notin Range(filteredPaperIndices)
    /\ navTarget = filteredPaperIndices[1]

\* C15: after a failed configuration fetch harmonized text is not shown by
\* default, reviews are not shuffled, and the paper the URL names is loaded
\* and rendered.
C15_SafeDefaults ==
    (page # "loading" /\ ~configResponse.ok) =>
        /\ appConfig.showHarmonizedByDefault = FALSE
        /\ appConfig.shuffleReviews = FALSE
        /\ (paperIndex # NaN /\ paperIndex >= 0 /\ paperIndex < Len(allPapers)) =>
               page \in {"open", "left"}

\* What the URL says about the index, read off its text.
UrlNumber(param) ==
    LET text == param.text
        negative == Len(text) > 0 /\ text[1] = "-"
        digits == IF negative THEN Tail(text) ELSE text
    IN  [numeric  |-> Len(digits) > 0 /\ isDigit(digits[1]),
         negative |-> negative,
         first    |-> IF Len(digits) > 0 /\ isDigit(digits[1])
                      THEN digitValue(digits[1]) ELSE 0,
         whole    |-> \A i \in DOMAIN digits : isDigit(digits[i]),
         count    |-> Len(digits)]

\* Missing, not a number, negative, or a one-digit number past the collection.
UrlIndexUnusable ==
    \/ ~locationSearch.present
    \/ ~UrlNumber(locationSearch).numeric
    \/ UrlNumber(locationSearch).negative /\ UrlNumber(locationSearch).first > 0
    \/ /\ UrlNumber(locationSearch).whole
       /\ UrlNumber(locationSearch).count = 1
       /\ UrlNumber(locationSearch).first >= Len(durable)

C17_FailedSaveNonFatal ==
    [][ /\ (Cardinality(inflight') < Cardinality(inflight) /\ durable' = durable) =>
               /\ allPapers' = allPapers
               /\ page' = page
        /\ nextRequest' > nextRequest =>
               \E m \in inflight' : m.seq = nextRequest /\ m.body = allPapers'
      ]_vars

\* After a rating whose save failed, a second rating has issued a save with
\* both ratings while the gateway still holds neither.
C17_Witness ==
    /\ dropped
    /\ events = 2
    /\ lastOp.op = "rate"
    /\ \E m \in inflight : m.seq = 2 /\ m.body = allPapers
    /\ Cardinality(inflight) = 1
    /\ durable \in Collections
    /\ \E r1, r2 \in DOMAIN currentPaper.reviews :
           /\ r1 # r2
           /\ currentPaper.reviews[r1] # durable[paperIndex + 1].reviews[r1]
           /\ currentPaper.reviews[r2] # durable[paperIndex + 1].reviews[r2]

Occurrences(seq, e) == Cardinality({i \in DOMAIN seq : seq[i] = e})

\* C18: shuffleWithSeed returns a permutation of its input: the same length
\* and every element as often as in the input; the generator's value stays
\* below 0x7fffffff, so no draw points past position i.
C18_ShuffleIsPermutation ==
    /\ fnRet.op = "shuffleWithSeed" =>
           /\ Len(fnRet.shuffled) = Len(fnRet.before)
           /\ \A e \in ShuffleProbeElements :
                  Occurrences(fnRet.shuffled, e) = Occurrences(fnRet.before, e)
    /\ fnRet.op = "seededRandom" =>
           \A k \in DOMAIN fnRet.states :
               fnRet.states[k] >= 0 /\ fnRet.states[k] < INT31_MASK

\* Three distinct elements come back in another order.
C18_Witness ==
    /\ fnRet.op = "shuffleWithSeed"
    /\ fnRet.before = << "a", "b", "c" >>
    /\ fnRet.shuffled = << "c", "a", "b" >>

TextsOf(reviews) == [k \in DOMAIN reviews |-> reviews[k].text]

\* C19: whenever the paper is rendered, at load or again after a clear, the
\* items show the reviews in the order shuffleWithSeed(reviews, shuffleSeed +
\* paperIndex) gives, and in the stored order when shuffleReviews is off.
C19_DisplayOrderReproducible ==
    page = "open" =>
        [k \in DOMAIN rendered |-> rendered[k].text] =
            IF appConfig.shuffleReviews /\ Len(currentPaper.reviews) > 0
            THEN TextsOf(shuffleWithSeed(currentPaper.reviews,
                                         appConfig.shuffleSeed + paperIndex))
            ELSE TextsOf(currentPaper.reviews)

\* The second paper is rendered again after a clear, in the shuffled order.
C19_Witness ==
    /\ page = "open"
    /\ lastOp.op = "rerender"
    /\ appConfig.shuffleReviews
    /\ paperIndex = 1
    /\ [k \in DOMAIN rendered |-> rendered[k].text] = << "B2", "B1" >>

\* The texts of every paper's reviews, in order.
ReviewOrder(papers) == [p \in DOMAIN papers |-> TextsOf(papers[p].reviews)]

\* C20: the collection in memory, the gateway's copy and every save payload
\* list each paper's reviews in the stored order, whatever has been rendered.
C20_StoredOrderKept ==
    page # "loading" =>
        /\ ReviewOrder(allPapers) \in {ReviewOrder(c) : c \in Collections}
        /\ ReviewOrder(durable) = ReviewOrder(allPapers)
        /\ \A m \in inflight : ReviewOrder(m.body) = ReviewOrder(allPapers)

\* A save is in flight from a page that shows the reviews in another order.
C20_Witness ==
    /\ page = "open"
    /\ appConfig.shuffleReviews
    /\ [k \in DOMAIN rendered |-> rendered[k].text] = << "B2", "B1" >>
    /\ \E m \in inflight : TextsOf(m.body[2].reviews) = << "B1", "B2" >>

\* The persisted filter state that names evaluator e and nothing else, and
\* the filter state the catalog holds once it has loaded it.
SeededFilters(e) ==
    StoredJson(JsObject(JsArray(<< e >>), JsArray(<< >>), JsArray(<< >>),
                        JsArray(<< >>), JsArray(<< >>)))

OnlyEvaluator(e) ==
    [evaluators |-> {e}, areas |-> {}, keywords |-> {}, titleKeywords |-> {},
     statuses |-> {}]

\* C21: continue-evaluation with evaluator E selected leaves exactly
\* {evaluators:[E], areas:[], keywords:[], titleKeywords:[], statuses:[]}
\* persisted, whatever was stored, and opens the catalog, which then holds
\* exactly that filter state; with no evaluator selected no step of the
\* dashboard changes the stored filters or leaves the document.
C21_ContinueSeedsFilter ==
    /\ [](/\ lastOp.op = "continue" =>
                /\ handoff.evaluator # null
                /\ localStorage = SeededFilters(handoff.evaluator)
                /\ location = "index.html"
                /\ page = "loading"
          /\ (/\ lastOp.op = "loadCatalog"
              /\ handoff.from = "evaluator-dashboard.html") =>
                /\ page = "open"
                /\ filters = OnlyEvaluator(handoff.evaluator))
    /\ [][(location = "evaluator-dashboard.html" /\ selectedEvaluator = null) =>
              /\ localStorage' = localStorage
              /\ location' = location
              /\ lastOp'.op # "continue"]_vars

C21_Witness ==
    /\ lastOp.op = "loadCatalog"
    /\ page = "open"
    /\ handoff.from = "evaluator-dashboard.html"
    /\ handoff.replaced =
           StoredJson(JsObject(JsArray(<< "bob" >>), JsArray(<< "cv" >>), JsUndefined,
                               JsArray(<< << "a" >> >>), JsArray(<< "completed" >>)))
    /\ filters = OnlyEvaluator("alice")
    /\ papersList.kind = "cards"

\* C22: the workspace opened by a click on a card of the catalog or of the
\* dashboard shows the paper that card showed, at its index in the whole
\* collection, whatever the position of the card in the list.
C22_ClickedPaperIsLoaded ==
    (location = "evaluate.html" /\ handoff.from # "none" /\ page # "loading") =>
        /\ page = "open"
        /\ paperIndex \in 0..(Len(durable) - 1)
        /\ durable[paperIndex + 1] = handoff.paper
        /\ currentPaper = handoff.paper

C22_Witness ==
    /\ location = "evaluate.html"
    /\ page = "open"
    /\ handoff.from = "index.html"
    /\ handoff.position # paperIndex
    /\ currentPaper = handoff.paper

\* The four counts of the papers of a set of (0-based) indices.
CountsOf(papers, subset) ==
    LET with(status) == Cardinality({i \in subset : papers[i + 1].status = status})
    IN  [total       |-> Cardinality(subset),
         completed   |-> with("completed"),
         in_progress |-> with("in_progress"),
         not_started |-> with("not_started")]

\* C23: the catalog's counts are those of the papers passing the current
\* filters and the dashboard's those of the papers of the selected
\* evaluator, after the load and after every change of a filter or of the
\* evaluator; the total is the sum of the three status counts.
C23_CountsOfCurrentSubset ==
    /\ (location = "index.html" /\ page # "loading") =>
           statistics = CountsOf(allPapers, PassingIndices(allPapers, filters))
    /\ (location = "evaluator-dashboard.html" /\ sections = "shown") =>
           statistics = CountsOf(allPapers,
                                 {i \in 0..(Len(allPapers) - 1) :
                                     \E e \in DOMAIN allPapers[i + 1].evaluators :
                                         allPapers[i + 1].evaluators[e] = selectedEvaluator})
    /\ statistics.total =
           statistics.completed + statistics.in_progress + statistics.not_started

C23_Witness ==
    /\ location = "index.html"
    /\ lastOp.op = "filter"
    /\ statistics.total > 0
    /\ statistics.total < Len(allPapers)
    /\ statistics.completed = 1

\* A collection without what an evaluation may change: the status of a paper
\* and the metrics of a review.
Skeleton(papers) ==
    [p \in DOMAIN papers |->
        [papers[p] EXCEPT !.status = "",
                          !.reviews = [r \in DOMAIN papers[p].reviews |->
                                          papers[p].reviews[r].text]]]

\* The skeletons of the collections the gateway may serve.
LoadedSkeletons == {Skeleton(c) : c \in LoadCollections}

\* C24: once loaded, the collection in memory, the gateway's copy and every
\* save payload have the papers and the reviews of the collection loaded,
\* in their positions; a step changes nothing of a paper other than the
\* current one, and of the current one only metrics and status.
C24_NoPaperOrReviewCreated ==
    /\ [](page # "loading" =>
             /\ Skeleton(allPapers) \in LoadedSkeletons
             /\ Skeleton(durable) = Skeleton(allPapers)
             /\ \A m \in inflight : Skeleton(m.body) = Skeleton(allPapers))
    /\ [][page # "loading" =>
             /\ DOMAIN allPapers' = DOMAIN allPapers
             /\ \A p \in DOMAIN allPapers :
                    p # paperIndex + 1 => allPapers'[p] = allPapers[p]]_vars

C24_Witness ==
    /\ page = "open"
    /\ lastOp.op = "rate"
    /\ currentPaper.status = "completed"
    /\ durable[paperIndex + 1].status = "in_progress"
    /\ \E m \in inflight : m.body = allPapers

\* C25: the payload of a request is the whole collection as it is in memory
\* when the request is issued, every metric as it is there (a 0 as 0); the
\* gateway's copy after a request it accepted is that payload, and a load
\* puts the gateway's copy into memory.
C25_WholeCollectionRoundTrips ==
    [][/\ \A m \in inflight' \ inflight : m.body = allPapers'
       /\ \A m \in inflight \ inflight' :
              durable' = m.body \/ (dropped' /\ durable' = durable)
       /\ (lastOp'.op = "load" /\ page' = "open") => allPapers' = durable']_vars

C25_Witness ==
    /\ lastOp.op \in {"deliver", "rerender"}
    /\ ~dropped
    /\ inflight = {}
    /\ durable \notin Collections
    /\ durable = allPapers
    /\ currentPaper.reviews[1].metrics.coverage = 0
    /\ currentPaper.reviews[1].metrics.comment = ""
    /\ currentPaper.reviews[2].metrics.coverage > 0

\* A statement that stops the iframe's load.
Neutralises(e) ==
    \/ e.act = "pdfViewer.src" /\ e.to = << "about:blank" >>
    \/ e.act = "pdfViewer.remove"

\* C26: in the handler that leaves the page (previous, next, back), the
\* assignment of the location comes after a statement that blanks or removes
\* the iframe, and the page is left with the iframe blank or removed.
C26_ViewerNeutralisedFirst ==
    /\ \A k \in DOMAIN handlerLog :
           handlerLog[k].act = "location.href" =>
               \E j \in 1..(k - 1) : Neutralises(handlerLog[j])
    /\ page = "left" => pdfViewer \in {"blank", "removed"}
    /\ (page = "left" /\ lastOp.op \in {"prev", "next"}) =>
           \E k \in DOMAIN handlerLog : handlerLog[k].act = "location.href"

C26_Witness ==
    /\ page = "left"
    /\ lastOp.op = "next"
    /\ pdfViewer = "blank"
    /\ handlerLog[2].act = "location.href"
    /\ handlerLog[2].to = << "evaluate.html?paper=", "1" >>

\* C27: where the collection cannot be fetched or parsed, the catalog shows
\* its error state after the load and never a card, and the workspace shows
\* its error title and neither a review nor a PDF; where the collection
\* loads, a failing GET /config leads to no error state.
C27_CollectionFailureIsFatal ==
    /\ (papersResponse # "ok" /\ page # "loading"
            /\ location \in {"index.html", "evaluate.html"}) =>
           /\ page = "error"
           /\ allPapers = << >>
           /\ papersList.cards = << >>
           /\ rendered = << >>
           /\ pdfViewer = "empty"
           /\ (location = "index.html" /\ lastOp.op = "loadCatalog") =>
                  papersList.kind = "error"
    /\ (papersResponse = "ok" /\ page # "loading") =>
           page # "error" /\ papersList.kind # "error"

C27_Witness ==
    /\ location = "evaluate.html"
    /\ page = "error"
    /\ configResponse # ConfigFailure
    /\ papersResponse # "ok"

\* C28: the step that handles a themechange while a chart exists keeps the
\* instance, its labels and its data, and gives it the colours of the new
\* theme.
C28_ThemeKeepsChart ==
    [][(lastOp'.op = "theme" /\ chart # NoChart) =>
           /\ chart'.id = chart.id
           /\ chart'.labels = chart.labels
           /\ chart'.data = chart.data
           /\ chart'.colors = getChartColors(theme')
           /\ chart'.updates = chart.updates + 1]_vars

C28_Witness ==
    /\ lastOp.op = "theme"
    /\ theme = "dark"
    /\ chart # NoChart
    /\ Len(chart.labels) = 2
    /\ chart.colors.bar = "--chart-bar-color (dark)"

\* C29: in each step of the loop of shuffleWithSeed, for i from the last
\* index down to 1, the generator's state after the call is below
\* 0x7fffffff and the index drawn lies in 0..i.
C29_DrawWithinRange ==
    /\ fnRet.op = "shuffleWithSeed" =>
           /\ Len(fnRet.draws) = (IF Len(fnRet.before) > 0
                                  THEN Len(fnRet.before) - 1 ELSE 0)
           /\ \A k \in DOMAIN fnRet.draws :
                  /\ fnRet.draws[k].i = Len(fnRet.before) - k
                  /\ fnRet.draws[k].state >= 0
                  /\ fnRet.draws[k].state < INT31_MASK
                  /\ fnRet.draws[k].j >= 0
                  /\ fnRet.draws[k].j <= fnRet.draws[k].i
    /\ fnRet.op = "seededRandom" =>
           \A k \in DOMAIN fnRet.states :
               fnRet.states[k] >= 0 /\ fnRet.states[k] < INT31_MASK

C29_Witness ==
    /\ fnRet.op = "shuffleWithSeed"
    /\ fnArg.seed = 230538014
    /\ Len(fnRet.draws) = 2
    /\ fnRet.draws[1].i = 2
    /\ fnRet.draws[2].i = 1

\* C30: the step of a click on star v of metric m sets that metric of the
\* review the item's controls are bound to, sets the paper's status to the
\* one its reviews give, and issues a request with the resulting collection
\* as its payload, with no timer; nothing else of the collection changes.
C30_StarClickFrame ==
    [][lastOp'.op = "rate" =>
           LET r == rendered[lastOp'.item].dataReview
               rated == [currentPaper EXCEPT
                            !.reviews[r].metrics[lastOp'.metric] = lastOp'.value]
           IN  /\ lastOp'.value \in 1..MaxStar
               /\ allPapers' = [allPapers EXCEPT ![paperIndex + 1] =
                                   [rated EXCEPT !.status = DerivedStatus(rated)]]
               /\ \E m \in inflight' \ inflight : m.body = allPapers'
               /\ timers' = timers
               /\ commentSaveTimeouts' = commentSaveTimeouts]_vars

C30_Witness ==
    /\ lastOp.op = "rate"
    /\ lastOp.value = 3
    /\ lastOp.metric = "stance"
    /\ currentPaper.status = "completed"
    /\ durable[paperIndex + 1].status = "in_progress"
    /\ \E m \in inflight : m.body = allPapers

\* The source of every review of a collection.
SourcesOf(papers) ==
    [p \in DOMAIN papers |->
        [r \in DOMAIN papers[p].reviews |-> papers[p].reviews[r].metrics.source]]

\* C31: the step of a click on AI or Human sets the source of the review
\* the item's controls are bound to to 'ai' or 'human', sets the paper's
\* status to the one its reviews give and issues a request with the
\* resulting collection, with no timer; and whatever the step, a source that
\* changes in memory becomes 'ai', 'human' or ''.
C31_SourceCanonical ==
    [][/\ lastOp'.op = "source" =>
              LET r == rendered[lastOp'.item].dataReview
                  written == currentPaper'.reviews[r].metrics.source
                  sourced == [currentPaper EXCEPT
                                 !.reviews[r].metrics.source = written]
              IN  /\ written \in {"ai", "human"}
                  /\ allPapers' = [allPapers EXCEPT ![paperIndex + 1] =
                                      [sourced EXCEPT !.status = DerivedStatus(sourced)]]
                  /\ \E m \in inflight' \ inflight : m.body = allPapers'
                  /\ timers' = timers
       /\ (page = "open" /\ page' # "loading") =>
              \A p \in DOMAIN allPapers : \A r \in DOMAIN allPapers[p].reviews :
                  \/ SourcesOf(allPapers')[p][r] = SourcesOf(allPapers)[p][r]
                  \/ SourcesOf(allPapers')[p][r] \in {"ai", "human", ""}]_vars

C31_Witness ==
    /\ lastOp.op = "source"
    /\ page = "open"
    /\ currentPaper.reviews[2].metrics.source = "human"
    /\ durable[paperIndex + 1].reviews[2].metrics.source = "2"
    /\ \E m \in inflight : m.body = allPapers

\* C32: the step of a Clear Evaluation click whose confirmation is declined
\* changes no paper in memory, nothing the page shows and no timer, and
\* issues no request.
C32_DeclinedClearChangesNothing ==
    [][lastOp'.op = "decline" =>
           /\ allPapers' = allPapers
           /\ rendered' = rendered
           /\ textarea' = textarea
           /\ inflight' = inflight
           /\ nextRequest' = nextRequest
           /\ durable' = durable
           /\ timers' = timers
           /\ commentSaveTimeouts' = commentSaveTimeouts]_vars

C32_Witness ==
    /\ lastOp.op = "decline"
    /\ page = "open"
    /\ hasAllMetrics(currentPaper.reviews[lastOp.item].metrics)
    /\ currentPaper.status = "in_progress"
    /\ inflight = {}

\* C38: a step of the open page other than a confirmed Clear Evaluation
\* keeps every complete review of the current paper complete, and the
\* number calculateProgress counts does not go down.
C38_CompletionMonotone ==
    [][(page = "open" /\ page' # "loading" /\ lastOp'.op # "clear") =>
           /\ \A r \in DOMAIN currentPaper.reviews :
                  hasAllMetrics(currentPaper.reviews[r].metrics) =>
                      hasAllMetrics(currentPaper'.reviews[r].metrics)
           /\ calculateProgress(currentPaper').completed >=
                  calculateProgress(currentPaper).completed]_vars

C38_Witness ==
    /\ lastOp.op = "rate"
    /\ page = "open"
    /\ calculateProgress(currentPaper).completed = 1
    /\ hasAllMetrics(currentPaper.reviews[1].metrics)
    /\ currentPaper.reviews[1].metrics.correctness = MaxStar
    /\ durable[paperIndex + 1].reviews[1].metrics.correctness = 1

\* C37: for one collection and one stored filter value (valid, missing or
\* corrupt) the catalog's filtered list, i.e. filterPapers() after
\* loadSavedFilters(), holds the papers at exactly the indices that the
\* workspace's getFilteredPapers() returns, in the same order.
C37_CatalogAndWorkspaceAgree ==
    fnRet.op = "filterPapers" =>
        LET indices == getFilteredPapers(fnArg.papers, fnArg.saved) IN
        /\ keptIndices(fnArg.papers, fnRet.filters, 1) = indices
        /\ fnRet.papers = [i \in DOMAIN indices |-> fnArg.papers[indices[i] + 1]]

(***************************************************************************)
(* The catalog's filter controls, with the two search fields and a reload. *)
(***************************************************************************)

\* The white space String.prototype.trim removes (the characters of the model).
WhiteSpace == {" "}

RECURSIVE trimStart(_)
trimStart(s) ==
    IF s # << >> /\ Head(s) \in WhiteSpace THEN trimStart(Tail(s)) ELSE s

RECURSIVE trimEnd(_)
trimEnd(s) ==
    IF s # << >> /\ s[Len(s)] \in WhiteSpace
    THEN trimEnd(SubSeq(s, 1, Len(s) - 1)) ELSE s

\* String.prototype.trim
trim(s) == trimEnd(trimStart(s))

\* The texts typed into a search field before Enter.
SearchInputs == { << >>, << " " >>, << " ", "B" >>, << "a", " " >>, << "a", " ", "B" >> }

\* A keypress handler that adds whatever the field holds.
SubmitTermUntrimmed(field, typed) ==
    /\ location = "index.html"
    /\ page \in {"open", "error"}
    /\ events < budget
    /\ field \in {"keywords", "titleKeywords"}
    /\ LET changed == [filters EXCEPT ![field] = @ \cup {typed}]
           view == renderPapers(allPapers, changed)
       IN  /\ filters' = changed
           /\ localStorage' = saveFilters(changed)
           /\ papersList' = view.list
           /\ statistics' = view.stats
    /\ events' = events + 1
    /\ lastOp' = [op |-> "submit", item |-> 0, prior |-> NoPaper,
                  request |-> nextRequest, field |-> field, typed |-> typed]
    /\ UNCHANGED << workspaceVars, page, allPapers, locationSearch, location,
                    selectedEvaluator, storedEvaluator, sections, chart, theme,
                    reviewTheme, mediaQuery,
                    handoff >>

\* The keypress handlers of #keyword-search and #title-search on Enter: a
\* value that trims to the empty string is ignored; otherwise the trimmed
\* value is added, then saveFilters() and renderPapers().
SubmitTerm(field, typed) ==
    /\ location = "index.html"
    /\ page \in {"open", "error"}
    /\ events < budget
    /\ field \in {"keywords", "titleKeywords"}
    /\ IF trim(typed) # << >>
       THEN LET changed == [filters EXCEPT ![field] = @ \cup {trim(typed)}]
                view == renderPapers(allPapers, changed)
            IN  /\ filters' = changed
                /\ localStorage' = saveFilters(changed)
                /\ papersList' = view.list
                /\ statistics' = view.stats
       ELSE UNCHANGED << filters, localStorage, papersList, statistics >>
    /\ events' = events + 1
    /\ lastOp' = [op |-> "submit", item |-> 0, prior |-> NoPaper,
                  request |-> nextRequest, field |-> field, typed |-> typed]
    /\ UNCHANGED << workspaceVars, page, allPapers, locationSearch, location,
                    selectedEvaluator, storedEvaluator, sections, chart, theme,
                    reviewTheme, mediaQuery,
                    handoff >>

\* The browser's reload of the catalog: the script starts again, the Filter
\* Store stays.  The hand-off keeps what the page held when it was left.
ReloadCatalog ==
    /\ location = "index.html"
    /\ page \in {"open", "error"}
    /\ lastOp.op \in {"filter", "submit"}
    /\ Navigate("index.html", UrlAbsent)
    /\ handoff' = [from |-> "reload", filters |-> filters, stored |-> localStorage]
    /\ lastOp' = Op("reload", 0, NoPaper)
    /\ UNCHANGED << workspaceVars, events, localStorage, storedEvaluator, theme,
                    reviewTheme, mediaQuery >>

MaxCatalogEvents == 3

\* A visit of the catalog.
InitCatalog ==
    /\ ScriptLoaded
    /\ SiteScriptLoaded
    /\ durable \in LoadCollections
    /\ localStorage \in SiteStored
    /\ location = "index.html"
    /\ locationSearch = UrlAbsent
    /\ configResponse = ConfigFailure
    /\ papersResponse \in {"ok", "failed"}
    /\ budget = MaxCatalogEvents
    /\ storedEvaluator = null
    /\ theme = "light"
    /\ fnArg = NoPaper
    /\ fnRet = [op |-> "idle"]

NextCatalog ==
    \/ LoadCatalog
    \/ \E field \in Range(FILTER_FIELDS) :
          \E value \in FilterInputs(field) : ChangeFilter(field, value)
    \/ \E field \in {"keywords", "titleKeywords"} :
          \E typed \in SearchInputs : SubmitTerm(field, typed)
    \/ ReloadCatalog

SpecCatalog == InitCatalog /\ [][NextCatalog]_vars

\* The five sets a stored value denotes, if it is an object of five arrays.
StoredSets(stored) ==
    [k \in Range(FILTER_FIELDS) |-> Range(stored.value[k].items)]

IsSavedState(stored, f) ==
    /\ stored.kind = "json"
    /\ stored.value.type = "object"
    /\ \A k \in Range(FILTER_FIELDS) : stored.value[k].type = "array"
    /\ StoredSets(stored) = f

BlankTerm(typed) == \A i \in DOMAIN typed : typed[i] = " "

\* C35: after every filter-changing action of the catalog (a checkbox or
\* status toggle, a term added by Enter or removed via its tag) the Filter
\* Store holds exactly the five in-memory sets, and loading what was saved
\* gives those five sets back, also across a reload; a submitted term that
\* is empty or only white space changes neither the sets nor the store.
C35_FiltersPersistedAndRoundTrip ==
    /\ [](/\ (\/ lastOp.op = "filter"
              \/ lastOp.op = "submit" /\ ~BlankTerm(lastOp.typed)) =>
                /\ IsSavedState(localStorage, filters)
                /\ loadSavedFilters(NoFilters, localStorage) = filters
          /\ (/\ lastOp.op = "loadCatalog"
              /\ page = "open"
              /\ handoff.from = "reload"
              /\ IsSavedState(handoff.stored, handoff.filters)) =>
                filters = handoff.filters)
    /\ [][(/\ lastOp'.op = "submit"
           /\ events' = events + 1
           /\ BlankTerm(lastOp'.typed)) =>
              /\ filters' = filters
              /\ localStorage' = localStorage
              /\ papersList' = papersList]_vars

C35_Witness ==
    /\ lastOp.op = "loadCatalog"
    /\ page = "open"
    /\ handoff.from = "reload"
    /\ IsSavedState(handoff.stored, handoff.filters)
    /\ filters.titleKeywords = { << "a", " ", "B" >> }
    /\ filters.statuses = {"completed"}
    /\ events = 3

(***************************************************************************)
(* The dashboard's histogram on collections with many, long and numeric    *)
(* area names.                                                             *)
(***************************************************************************)

LongArea == "computational linguistics and generative models"

ManyAreas == << "a1", "a2", "a3", "a4", "a5", "a6", "a7", "a8", "a9", "b1", "b2" >>

ChartProbePapers ==
    { CatalogPaper(<< "A" >>, << "alice" >>, << "nlp" >>, << >>, "not_started", << >>),
      CatalogPaper(<< "B" >>, << "alice" >>, << "7" >>, << >>, "not_started", << >>),
      CatalogPaper(<< "C" >>, << "alice", "bob" >>, << "cv", "nlp" >>, << >>,
                   "not_started", << >>),
      CatalogPaper(<< "D" >>, << "bob" >>, << "cv", "cv" >>, << >>, "completed", << >>),
      CatalogPaper(<< "E" >>, << "alice" >>, ManyAreas \o << LongArea >>, << >>,
                   "in_progress", << >>) }

MaxChartPapers == 2

MaxChartEvents == 2

ChartCollections ==
    UNION { [1..n -> ChartProbePapers] : n \in 1..MaxChartPapers }

\* A visit of the dashboard.
InitChart ==
    /\ ScriptLoaded
    /\ SiteScriptLoaded
    /\ durable \in ChartCollections
    /\ localStorage = StoredAbsent
    /\ location = "evaluator-dashboard.html"
    /\ locationSearch = UrlAbsent
    /\ configResponse = ConfigFailure
    /\ papersResponse = "ok"
    /\ budget = MaxChartEvents
    /\ storedEvaluator \in {null, "alice", "bob"}
    /\ theme = "light"
    /\ fnArg = NoPaper
    /\ fnRet = [op |-> "idle"]

NextChart ==
    \/ LoadDashboard
    \/ \E value \in {"", "alice", "bob"} : ChangeEvaluator(value)
    \/ ToggleTheme

SpecChart == InitChart /\ [][NextChart]_vars

\* The research areas of the papers of an evaluator, one per occurrence, in
\* the order of a scan of the collection.
AreasScanned(papers, evaluator) ==
    LET RECURSIVE scan(_)
        scan(p) ==
            IF p > Len(papers) THEN << >>
            ELSE (IF \E e \in DOMAIN papers[p].evaluators :
                         papers[p].evaluators[e] = evaluator
                  THEN papers[p].primary_area ELSE << >>) \o scan(p + 1)
    IN  scan(1)

\* The areas of a scan ordered by count, descending, areas of equal count in
\* the order in which the scan first meets them; each with its count.
Histogram(scanned) ==
    LET areas == {scanned[i] : i \in DOMAIN scanned}
        count(a) == Cardinality({i \in DOMAIN scanned : scanned[i] = a})
        firstMet(a) == CHOOSE i \in DOMAIN scanned :
                           scanned[i] = a /\ \A j \in 1..(i - 1) : scanned[j] # a
        before(a, b) == count(a) > count(b)
                           \/ (count(a) = count(b) /\ firstMet(a) < firstMet(b))
        place(a) == 1 + Cardinality({b \in areas : before(b, a)})
    IN  [k \in 1..Cardinality(areas) |->
            LET a == CHOOSE x \in areas : place(x) = k IN [area |-> a, count |-> count(a)]]

\* C36: the histogram shown for the selected evaluator lists at most ten
\* areas, counted over that evaluator's papers only, in descending order of
\* count with areas of equal count in the order in which the scan of the
\* papers first met them; the tooltip title of a bar is its full area name.
C36_HistogramOfEvaluator ==
    (location = "evaluator-dashboard.html" /\ sections = "shown" /\ chart # NoChart) =>
        LET expected == Histogram(AreasScanned(allPapers, selectedEvaluator))
            shown == IF Len(expected) < 10 THEN Len(expected) ELSE 10
        IN  /\ Len(chart.titles) = shown
            /\ Len(chart.data) = shown
            /\ \A k \in 1..shown :
                   /\ chart.titles[k] = expected[k].area
                   /\ chart.data[k] = expected[k].count

\* The same where no area of the evaluator's papers is named by an array index.
C36_HistogramOfNamedAreas ==
    (location = "evaluator-dashboard.html" /\ sections = "shown" /\ chart # NoChart
        /\ \A i \in DOMAIN AreasScanned(allPapers, selectedEvaluator) :
               ~isArrayIndex(AreasScanned(allPapers, selectedEvaluator)[i])) =>
        C36_HistogramOfEvaluator

(***************************************************************************)
(* theme.js: the stored preference, the system's colour scheme and the     *)
(* theme applied.                                                          *)
(***************************************************************************)

\* readStoredPreference
readStoredPreference(stored) ==
    IF stored = "dark" \/ stored = "light" THEN stored ELSE null

\* systemPreference: MEDIA_QUERY is null where there is no window.matchMedia.
systemPreference(query) ==
    IF query.present THEN (IF query.matches THEN "dark" ELSE "light") ELSE "light"

\* resolveInitialTheme: readStoredPreference() || systemPreference()
resolveInitialTheme(stored, query) ==
    IF readStoredPreference(stored) # null THEN readStoredPreference(stored)
    ELSE systemPreference(query)

\* applyTheme(theme, { persist }): the body's class and data-theme, the
\* stored item if persist is set, and the themechange event, to which the
\* dashboard's listener answers.
applyTheme(t, persist) ==
    /\ theme' = t
    /\ reviewTheme' = IF persist THEN t ELSE reviewTheme
    /\ chart' = themechange(chart, t)

\* The document is loaded again: initialise() applies resolveInitialTheme()
\* without persisting it.
initialise ==
    /\ events < budget
    /\ applyTheme(resolveInitialTheme(reviewTheme, mediaQuery), FALSE)
    /\ events' = events + 1
    /\ lastOp' = Op("initialise", 0, NoPaper)
    /\ UNCHANGED << workspaceVars, page, allPapers, localStorage, locationSearch,
                    location, filters, papersList, statistics, selectedEvaluator,
                    storedEvaluator, sections, mediaQuery, handoff >>

\* A listener that follows the system whatever is stored.
handleSystemChangeAlways(matches) ==
    /\ mediaQuery.present
    /\ matches # mediaQuery.matches
    /\ events < budget
    /\ mediaQuery' = [mediaQuery EXCEPT !.matches = matches]
    /\ applyTheme(IF matches THEN "dark" ELSE "light", FALSE)
    /\ events' = events + 1
    /\ lastOp' = Op("system", 0, NoPaper)
    /\ UNCHANGED << workspaceVars, page, allPapers, localStorage, locationSearch,
                    location, filters, papersList, statistics, selectedEvaluator,
                    storedEvaluator, sections, handoff >>

\* handleSystemChange(event), the change listener of MEDIA_QUERY: nothing
\* where a preference is stored, else applyTheme without persist.
handleSystemChange(matches) ==
    /\ mediaQuery.present
    /\ matches # mediaQuery.matches
    /\ events < budget
    /\ mediaQuery' = [mediaQuery EXCEPT !.matches = matches]
    /\ IF readStoredPreference(reviewTheme) # null
       THEN UNCHANGED << theme, reviewTheme, chart >>
       ELSE applyTheme(IF matches THEN "dark" ELSE "light", FALSE)
    /\ events' = events + 1
    /\ lastOp' = Op("system", 0, NoPaper)
    /\ UNCHANGED << workspaceVars, page, allPapers, localStorage, locationSearch,
                    location, filters, papersList, statistics, selectedEvaluator,
                    storedEvaluator, sections, handoff >>

MaxThemeEvents == 3

\* A document after initialise(), for each stored item and each system.
InitTheme ==
    /\ ScriptLoaded
    /\ durable \in Collections
    /\ localStorage = StoredAbsent
    /\ locationSearch = UrlAbsent
    /\ configResponse = ConfigFailure
    /\ budget = MaxThemeEvents
    /\ papersResponse = "ok"
    /\ location = "evaluator-dashboard.html"
    /\ pdfViewer = "empty"
    /\ handlerLog = << >>
    /\ filters = NoFilters
    /\ papersList = [kind |-> "initial", cards |-> << >>]
    /\ statistics = NoStatistics
    /\ selectedEvaluator = null
    /\ sections = "initial"
    /\ chart = NoChart
    /\ handoff = [from |-> "none"]
    /\ storedEvaluator = null
    /\ reviewTheme \in {null, "dark", "light", "blue"}
    /\ mediaQuery \in {[present |-> FALSE]}
                      \cup {[present |-> TRUE, matches |-> m] : m \in BOOLEAN}
    /\ theme = resolveInitialTheme(reviewTheme, mediaQuery)
    /\ fnArg = NoPaper
    /\ fnRet = [op |-> "idle"]

NextTheme ==
    \/ LoadDashboard
    \/ \E value \in {"alice", "bob"} : ChangeEvaluator(value)
    \/ initialise
    \/ ToggleTheme
    \/ \E matches \in BOOLEAN : handleSystemChange(matches)

SpecTheme == InitTheme /\ [][NextTheme]_vars

ValidPreference(stored) == stored \in {"dark", "light"}

\* C40: the initial theme is the stored preference if that is 'dark' or
\* 'light', else the system's; a toggle flips the applied theme and stores
\* it, so that after a toggle the stored preference is the applied theme;
\* with a valid preference stored, a change of the system's colour scheme
\* leaves the applied theme; no step but a toggle writes the stored
\* preference.
C40_ThemePreference ==
    /\ []((events = 0 \/ lastOp.op = "initialise") =>
              theme = IF ValidPreference(reviewTheme) THEN reviewTheme
                      ELSE IF mediaQuery.present /\ mediaQuery.matches THEN "dark"
                      ELSE "light")
    /\ [](lastOp.op = "theme" => reviewTheme = theme)
    /\ [][(events' = events + 1 /\ lastOp'.op = "theme") =>
              /\ theme \in {"dark", "light"}
              /\ theme' \in {"dark", "light"}
              /\ theme' # theme]_vars
    /\ [][(events' = events + 1 /\ lastOp'.op = "system"
              /\ ValidPreference(reviewTheme)) =>
              theme' = theme]_vars
    /\ [][(events' = events + 1 /\ lastOp'.op # "theme") =>
              reviewTheme' = reviewTheme]_vars

C40_Witness ==
    /\ lastOp.op = "system"
    /\ events = 3
    /\ reviewTheme = "dark"
    /\ theme = "dark"
    /\ mediaQuery = [present |-> TRUE, matches |-> FALSE]

(***************************************************************************)
(* The texts of a review item: the main pane (.review-text), the side      *)
(* panel (.harmonization-text), the hidden original, the dropdown of       *)
(* harmonization models and the split view.                                *)
(***************************************************************************)

\* A review with its reviewer and its harmonizations, each a model and a text.
HarmonizedReview(text, reviewer, harmonization) ==
    [text |-> text, reviewer |-> reviewer, harmonization |-> harmonization,
     metrics |-> Metrics(0, 0, 0, 0, 0, "", "")]

Harmonization(model, text) == [model |-> model, text |-> text]

\* marked.parse(text): the HTML of a paragraph.
markedParse(text) == "<p>" \o text \o "</p>"

\* review.harmonization.findIndex(h => h.model === model): -1 if there is none.
findIndex(harmonization, model) ==
    IF \E h \in DOMAIN harmonization : harmonization[h].model = model
    THEN (CHOOSE h \in DOMAIN harmonization :
              /\ harmonization[h].model = model
              /\ \A g \in 1..(h - 1) : harmonization[g].model # model) - 1
    ELSE -1

\* A default that is always the first entry.
defaultHarmonizationIndexFirst(review, config) == 0

\* renderReviews, defaultHarmonizationIndex (0-based): the entry of the
\* configured default model, or 0.
defaultHarmonizationIndex(review, config) ==
    IF findIndex(review.harmonization, config.defaultHarmonizationModel) # -1
    THEN findIndex(review.harmonization, config.defaultHarmonizationModel)
    ELSE 0

\* renderReviews, the item written for reviewsToRender[index]: its header,
\* its three text elements, its dropdown and its split view button.  Every
\* control carries data-review=index.
reviewItem(review, index, config) ==
    LET hasHarmonization == Len(review.harmonization) > 0
        showHarmonized == hasHarmonization /\ config.showHarmonizedByDefault
        defaultIndex == IF showHarmonized THEN defaultHarmonizationIndex(review, config)
                        ELSE 0
        mainText == IF showHarmonized THEN review.harmonization[defaultIndex + 1].text
                    ELSE review.text
        originalHtml == IF review.text # "" THEN markedParse(review.text)
                        ELSE "No review text available"
    IN  [text       |-> review.text,
         dataReview |-> index,
         reviewer   |-> IF config.showReviewerType /\ review.reviewer # ""
                        THEN "[" \o review.reviewer \o "]" ELSE "",
         main       |-> IF mainText # "" THEN markedParse(mainText)
                        ELSE "No review text available",
         side       |-> "",
         original   |-> originalHtml,
         split      |-> FALSE,
         options    |-> IF hasHarmonization /\ config.enableModelDropdown
                        THEN [h \in DOMAIN review.harmonization |->
                                 review.harmonization[h].model]
                        ELSE << >>,
         selected   |-> defaultIndex,
         splitBtn   |-> hasHarmonization /\ config.enableSplitView]

\* renderReviews with the texts of each item.
renderReviewItems(paper, config, paperIdx) ==
    IF Len(paper.reviews) = 0 THEN << >>
    ELSE LET reviewsWithIndices ==
                 [idx \in 1..Len(paper.reviews) |->
                     [review |-> paper.reviews[idx], originalIndex |-> idx]]
             shuffled ==
                 shuffleWithSeed(reviewsWithIndices, paperSeed(config, paperIdx))
             reviewsToRender ==
                 IF config.shuffleReviews
                 THEN [k \in DOMAIN shuffled |-> shuffled[k].review]
                 ELSE paper.reviews
         IN  [index \in 1..Len(reviewsToRender) |->
                 reviewItem(reviewsToRender[index], index, config)]

\* toggleSplitView(reviewIndex): entering puts the original into the main
\* pane and what the main pane held into the side panel; leaving puts the
\* side panel's content into the main pane.
toggleSplitView(items, reviewIndex) ==
    IF reviewIndex \notin DOMAIN items THEN items
    ELSE IF ~items[reviewIndex].split
    THEN [items EXCEPT ![reviewIndex].main = items[reviewIndex].original,
                       ![reviewIndex].side = items[reviewIndex].main,
                       ![reviewIndex].split = TRUE]
    ELSE [items EXCEPT ![reviewIndex].main = items[reviewIndex].side,
                       ![reviewIndex].split = FALSE]

\* updateMainText(reviewIndex, harmonizationIndex) (0-based entry):
\* currentPaper.reviews[reviewIndex] gives the text, the item of that
\* data-review-index receives it, in the side panel if it is in split view.
updateMainText(paper, items, reviewIndex, harmonizationIndex) ==
    IF \/ reviewIndex \notin DOMAIN paper.reviews
       \/ harmonizationIndex + 1 \notin DOMAIN paper.reviews[reviewIndex].harmonization
       \/ reviewIndex \notin DOMAIN items
    THEN items
    ELSE LET harmonization ==
                 paper.reviews[reviewIndex].harmonization[harmonizationIndex + 1]
             harmonizedHtml == IF harmonization.text # ""
                               THEN markedParse(harmonization.text)
                               ELSE "No harmonized text available"
         IN  IF items[reviewIndex].split
             THEN [items EXCEPT ![reviewIndex].side = harmonizedHtml]
             ELSE [items EXCEPT ![reviewIndex].main = harmonizedHtml]

\* What no handler of the texts touches.
textFrame ==
    << paperIndex, textarea, focused, commentSaveTimeouts, timers, nextTimerId,
       inflight, nextRequest, durable, runSaves, savedComments, dropped, envVars,
       navVars, docVars, siteVars, fnVars >>

\* The page view up to renderReviews, for the first paper and no filter.
ShowReviews ==
    /\ page = "loading"
    /\ appConfig' = loadConfig(configResponse)
    /\ allPapers' = durable
    /\ rendered' = renderReviewItems(durable[paperIndex + 1], appConfig', paperIndex)
    /\ page' = "open"
    /\ lastOp' = Op("show", 0, NoPaper)
    /\ UNCHANGED << events, textFrame >>

\* A click on the split view button of an item.
ClickSplitView(item) ==
    /\ page = "open"
    /\ events < budget
    /\ item \in DOMAIN rendered
    /\ rendered[item].splitBtn
    /\ rendered' = toggleSplitView(rendered, rendered[item].dataReview)
    /\ events' = events + 1
    /\ lastOp' = [op |-> "split", item |-> item, prior |-> NoPaper,
                  request |-> nextRequest, before |-> rendered[item],
                  entered |-> IF lastOp.op = "split" /\ lastOp.item = item
                              THEN lastOp.before ELSE [split |-> TRUE]]
    /\ UNCHANGED << page, appConfig, allPapers, textFrame >>

\* The change event of an item's dropdown on the choice of option `value`.
SelectModel(item, value) ==
    /\ page = "open"
    /\ events < budget
    /\ item \in DOMAIN rendered
    /\ value + 1 \in DOMAIN rendered[item].options
    /\ value # rendered[item].selected
    /\ rendered' = [updateMainText(currentPaper, rendered, rendered[item].dataReview,
                                   value)
                       EXCEPT ![item].selected = value]
    /\ events' = events + 1
    /\ lastOp' = [op |-> "model", item |-> item, prior |-> NoPaper,
                  request |-> nextRequest, before |-> rendered[item],
                  value |-> value]
    /\ UNCHANGED << page, appConfig, allPapers, textFrame >>

TextProbeReviews ==
    { HarmonizedReview("T1", "human", << >>),
      HarmonizedReview("T2", "ai", << Harmonization("gpt-4o-mini", "H2a"),
                                      Harmonization("other", "H2b") >>),
      HarmonizedReview("T3", "", << Harmonization("other", "H3b"),
                                    Harmonization("third", "") >>),
      HarmonizedReview("", "ai", << Harmonization("other", "H4b"),
                                    Harmonization("gpt-4o-mini", "H4a"),
                                    Harmonization("third", "H4c") >>) }

MaxTextReviews == 2

MaxTextEvents == 3

TextCollections ==
    { << Paper("not_started", reviews) >> :
        reviews \in UNION { [1..n -> TextProbeReviews] : n \in 1..MaxTextReviews } }

\* The configurations of the texts; the first is what loadConfig falls back
\* to where GET /config fails.
TextConfigs ==
    { [showHarmonizedByDefault |-> harmonized, defaultHarmonizationModel |-> "gpt-4o-mini",
       enableModelDropdown |-> controls, enableSplitView |-> controls,
       showReviewerType |-> controls, shuffleReviews |-> shuffle, shuffleSeed |-> 43] :
        harmonized \in BOOLEAN, controls \in BOOLEAN, shuffle \in BOOLEAN }

InitText ==
    /\ ScriptLoaded
    /\ durable \in TextCollections
    /\ localStorage = StoredAbsent
    /\ locationSearch = UrlAbsent
    /\ configResponse \in {ConfigOk(config) : config \in TextConfigs}
    /\ budget = MaxTextEvents
    /\ papersResponse = "ok"
    /\ location = "evaluate.html"
    /\ SiteScriptLoaded
    /\ storedEvaluator = null
    /\ theme = "light"
    /\ fnArg = NoPaper
    /\ fnRet = [op |-> "idle"]

NextText ==
    \/ ShowReviews
    \/ \E item \in 1..(MaxTextReviews + 1) : ClickSplitView(item)
    \/ \E item \in 1..(MaxTextReviews + 1) : \E value \in 0..2 : SelectModel(item, value)

SpecText == InitText /\ [][NextText]_vars

\* The reviews in the order in which the items show them.
DisplayedReviews ==
    IF appConfig.shuffleReviews /\ Len(currentPaper.reviews) > 0
    THEN shuffleWithSeed(currentPaper.reviews, appConfig.shuffleSeed + paperIndex)
    ELSE currentPaper.reviews

\* The HTML shown for a text, or the placeholder for an empty one.
HtmlOr(text, placeholder) == IF text = "" THEN placeholder ELSE markedParse(text)

\* The entry of a review that a render prefers: the first of the default
\* model, or the first entry.
PreferredEntry(review, model) ==
    LET entries == review.harmonization
        ofModel == {h \in DOMAIN entries : entries[h].model = model}
    IN  IF ofModel = {} THEN entries[1]
        ELSE entries[CHOOSE h \in ofModel : \A g \in ofModel : h <= g]

\* C33: on render an item shows harmonized text iff its review has at least
\* one harmonization entry and the configuration prefers harmonized text;
\* the entry shown is the one of the configured default model, or the first
\* entry where no entry has that model; otherwise the original text is shown.
C33_HarmonizedOnRender ==
    lastOp.op = "show" =>
        /\ Len(rendered) = Len(DisplayedReviews)
        /\ \A k \in DOMAIN rendered :
               LET review == DisplayedReviews[k] IN
               rendered[k].main =
                   IF Len(review.harmonization) >= 1 /\ appConfig.showHarmonizedByDefault
                   THEN HtmlOr(PreferredEntry(review,
                                              appConfig.defaultHarmonizationModel).text,
                               "No review text available")
                   ELSE HtmlOr(review.text, "No review text available")

C33_Witness ==
    /\ lastOp.op = "show"
    /\ appConfig.showHarmonizedByDefault
    /\ Len(rendered) = 2
    /\ rendered[1].main = "<p>H4a</p>"
    /\ rendered[1].original = "No review text available"
    /\ rendered[2].main = "<p>H3b</p>"

\* In split view the main pane shows the original text.
SplitShowsOriginal ==
    \A k \in DOMAIN rendered :
        rendered[k].split => rendered[k].main = rendered[k].original

\* A dropdown change puts the chosen text of the item's review into the side
\* panel in split view and into the main pane outside, and leaves the other.
ModelStep ==
    (events' = events + 1 /\ lastOp'.op = "model") =>
        LET i == lastOp'.item
            entry == DisplayedReviews[i].harmonization[lastOp'.value + 1]
            chosen == HtmlOr(entry.text, "No harmonized text available")
        IN  IF rendered[i].split
            THEN /\ rendered'[i].side = chosen
                 /\ rendered'[i].main = rendered[i].main
                 /\ rendered'[i].split
            ELSE /\ rendered'[i].main = chosen
                 /\ rendered'[i].side = rendered[i].side
                 /\ ~rendered'[i].split

\* Entering split view moves the main pane's text to the side panel; leaving
\* moves the side panel's text to the main pane.
SplitStep ==
    (events' = events + 1 /\ lastOp'.op = "split") =>
        LET i == lastOp'.item IN
        IF rendered[i].split
        THEN /\ ~rendered'[i].split
             /\ rendered'[i].main = rendered[i].side
        ELSE /\ rendered'[i].split
             /\ rendered'[i].main = rendered[i].original
             /\ rendered'[i].side = rendered[i].main

\* Entering and leaving at once restores the main pane.
EnterExitRestores ==
    (lastOp.op = "split" /\ ~lastOp.entered.split) =>
        /\ ~rendered[lastOp.item].split
        /\ rendered[lastOp.item].main = lastOp.entered.main

\* C34: per review item, in split view the main pane shows the original text
\* and a dropdown change puts the chosen text into the side panel only;
\* outside split view a dropdown change puts it into the main pane; leaving
\* split view puts into the main pane what the side panel showed last, so
\* that entering and leaving at once restores the main pane.
C34_SplitView ==
    /\ [](SplitShowsOriginal /\ EnterExitRestores)
    /\ [][ModelStep]_vars
    /\ [][SplitStep]_vars

\* The same for the page views that show the reviews in their stored order.
C34_SplitViewInStoredOrder ==
    /\ [](SplitShowsOriginal /\ EnterExitRestores)
    /\ [][~appConfig.shuffleReviews => ModelStep]_vars
    /\ [][SplitStep]_vars

\* The pane of an item in which a chosen harmonization is shown.
HarmonizedPane(item) == IF item.split THEN item.side ELSE item.main

\* C39: with or without shuffling, the text an item shows after a model was
\* chosen in its dropdown is a harmonization of the review whose original
\* text and reviewer label the item shows.
C39_ChosenTextOfShownReview ==
    lastOp.op = "model" =>
        LET item == rendered[lastOp.item]
            shown == DisplayedReviews[lastOp.item]
        IN  /\ item.text = shown.text
            /\ item.original = HtmlOr(shown.text, "No review text available")
            /\ \E h \in DOMAIN shown.harmonization :
                   HarmonizedPane(item) =
                       HtmlOr(shown.harmonization[h].text, "No harmonized text available")

\* The same for the page views that show the reviews in their stored order.
C39_ChosenTextInStoredOrder ==
    ~appConfig.shuffleReviews => C39_ChosenTextOfShownReview


====
